---- MODULE Spec2Model ----
(***************************************************************************)
(* A model of s2cell (src/s2cell/s2cell.py): S2 cell IDs, tokens, the      *)
(* Hilbert lookup tables and the cell-ID algebra.                          *)
(*                                                                         *)
(* Python integers are unbounded two's-complement numbers.  A Python int   *)
(* is modelled exactly as a record [inv, s]: when inv is FALSE the value   *)
(* is the sum of 2^b for b in s; when inv is TRUE the value is the bitwise *)
(* complement of that number (so -1 is [inv |-> TRUE, s |-> {}]).  Small   *)
(* integers (table indices, I, J, levels) are ordinary naturals.           *)
(***************************************************************************)
EXTENDS Integers, Sequences, FiniteSets, TLC

VARIABLES S2_LOOKUP_POS, S2_LOOKUP_IJ, trace, threads

vars == <<S2_LOOKUP_POS, S2_LOOKUP_IJ, trace, threads>>

(***************************************************************************)
(* Python int arithmetic                                                   *)
(***************************************************************************)

RECURSIVE Pow2(_)
Pow2(n) == IF n = 0 THEN 1 ELSE 2 * Pow2(n - 1)

PyNat(bitset) == [inv |-> FALSE, s |-> bitset]

\* The positions of the one bits of a natural, counted from position b.
RECURSIVE NatBitSet(_, _)
NatBitSet(n, b) ==
    IF n = 0 THEN {}
    ELSE (IF n % 2 = 1 THEN {b} ELSE {}) \cup NatBitSet(n \div 2, b + 1)

\* A natural below 2^31 as a Python int.
FromNat(n) == PyNat(NatBitSet(n, 0))

RECURSIVE SumPow2(_)
SumPow2(bitset) ==
    IF bitset = {} THEN 0
    ELSE LET b == CHOOSE x \in bitset : TRUE
         IN  Pow2(b) + SumPow2(bitset \ {b})

\* A non-negative Python int below 2^31 as a natural.
ToNat(x) == SumPow2(x.s)

\* The value of an integer of magnitude below 2^31.
ToInt(x) == IF x.inv THEN -SumPow2(x.s) - 1 ELSE SumPow2(x.s)

PyZero == PyNat({})

PyOne == PyNat({0})

IsNegative(x) == x.inv

\* x & y
BitAnd(x, y) ==
    IF ~x.inv /\ ~y.inv THEN PyNat(x.s \cap y.s)
    ELSE IF ~x.inv /\ y.inv THEN PyNat(x.s \ y.s)
    ELSE IF x.inv /\ ~y.inv THEN PyNat(y.s \ x.s)
    ELSE [inv |-> TRUE, s |-> x.s \cup y.s]

\* x | y
BitOr(x, y) ==
    IF ~x.inv /\ ~y.inv THEN PyNat(x.s \cup y.s)
    ELSE IF ~x.inv /\ y.inv THEN [inv |-> TRUE, s |-> y.s \ x.s]
    ELSE IF x.inv /\ ~y.inv THEN [inv |-> TRUE, s |-> x.s \ y.s]
    ELSE [inv |-> TRUE, s |-> x.s \cap y.s]

\* x ^ y
BitXor(x, y) == [inv |-> x.inv # y.inv, s |-> (x.s \ y.s) \cup (y.s \ x.s)]

\* ~x
BitNot(x) == [inv |-> ~x.inv, s |-> x.s]

\* x << k
Shl(x, k) ==
    IF ~x.inv THEN PyNat({b + k : b \in x.s})
    ELSE [inv |-> TRUE, s |-> {b + k : b \in x.s} \cup {b \in 0..(k - 1) : TRUE}]

\* x >> k (arithmetic, rounding towards minus infinity)
Shr(x, k) == [inv |-> x.inv, s |-> {b - k : b \in {c \in x.s : c >= k}}]

\* x + y for non-negative x and y: carries are propagated until none is left.
RECURSIVE AddBits(_, _)
AddBits(a, b) ==
    IF b = {} THEN a
    ELSE AddBits((a \ b) \cup (b \ a), {c + 1 : c \in a \cap b})

LowestBit(bitset) == CHOOSE b \in bitset : \A c \in bitset : b <= c

\* x + 1
AddOne(x) ==
    IF ~x.inv THEN PyNat(AddBits(x.s, {0}))
    ELSE IF x.s = {} THEN PyZero
    ELSE LET p == LowestBit(x.s)
         IN  [inv |-> TRUE, s |-> (x.s \ {p}) \cup {b \in 0..(p - 1) : TRUE}]

\* -x
Neg(x) == AddOne(BitNot(x))

\* x > n for a natural n below 2^31
GreaterThan(x, n) ==
    /\ ~x.inv
    /\ \/ \E b \in x.s : b >= 31
       \/ ToNat(x) > n

\* Bitwise operations on naturals below 2^31.
RECURSIVE NatAnd(_, _)
NatAnd(a, b) ==
    IF a = 0 \/ b = 0 THEN 0
    ELSE (a % 2) * (b % 2) + 2 * NatAnd(a \div 2, b \div 2)

RECURSIVE NatOr(_, _)
NatOr(a, b) ==
    IF a = 0 THEN b
    ELSE IF b = 0 THEN a
    ELSE (IF a % 2 = 1 \/ b % 2 = 1 THEN 1 ELSE 0) + 2 * NatOr(a \div 2, b \div 2)

RECURSIVE NatXor(_, _)
NatXor(a, b) ==
    IF a = 0 THEN b
    ELSE IF b = 0 THEN a
    ELSE ((a + b) % 2) + 2 * NatXor(a \div 2, b \div 2)

(***************************************************************************)
(* S2 base constants                                                       *)
(***************************************************************************)

S2_MAX_LEVEL == 30

S2_MAX_SIZE == Pow2(S2_MAX_LEVEL)

S2_FACE_BITS == 3

S2_POS_BITS == 2 * S2_MAX_LEVEL + 1

S2_SWAP_MASK == 1

S2_INVERT_MASK == 2

S2_LOOKUP_BITS == 4

S2_POS_TO_IJ ==
    [o \in 0..3 |->
        IF o = 0 THEN [p \in 0..3 |-> <<0, 1, 3, 2>>[p + 1]]
        ELSE IF o = 1 THEN [p \in 0..3 |-> <<0, 2, 3, 1>>[p + 1]]
        ELSE IF o = 2 THEN [p \in 0..3 |-> <<3, 2, 0, 1>>[p + 1]]
        ELSE [p \in 0..3 |-> <<3, 1, 0, 2>>[p + 1]]]

S2_POS_TO_ORIENTATION_MASK ==
    [p \in 0..3 |->
        <<S2_SWAP_MASK, 0, 0, NatOr(S2_SWAP_MASK, S2_INVERT_MASK)>>[p + 1]]

\* The value of the lookup globals before _s2_init_lookups has run.
None == <<>>

(***************************************************************************)
(* _s2_init_lookups                                                        *)
(***************************************************************************)

\* The inner loop taking the bit pairs of pos from the least significant.
RECURSIVE WalkBitPairs_low_first(_, _, _, _)
WalkBitPairs_low_first(pos, bit_pair_offset, ij, orientation) ==
    IF bit_pair_offset = 4 THEN [ij |-> ij, orientation |-> orientation]
    ELSE LET bit_pair == NatAnd(pos \div Pow2(bit_pair_offset * 2), 3)
             ij_bits == S2_POS_TO_IJ[orientation][bit_pair]
         IN  WalkBitPairs_low_first(pos, bit_pair_offset + 1,
                 NatOr(NatOr(ij * 2, NatAnd(ij_bits, 2) * 8), NatAnd(ij_bits, 1)),
                 NatXor(orientation, S2_POS_TO_ORIENTATION_MASK[bit_pair]))

\* The inner loop over the four bit pairs of pos, from the most significant.
RECURSIVE WalkBitPairs(_, _, _, _)
WalkBitPairs(pos, bit_pair_offset, ij, orientation) ==
    IF bit_pair_offset = 4 THEN [ij |-> ij, orientation |-> orientation]
    ELSE LET bit_pair == NatAnd(pos \div Pow2((3 - bit_pair_offset) * 2), 3)
             ij_bits == S2_POS_TO_IJ[orientation][bit_pair]
         IN  WalkBitPairs(pos, bit_pair_offset + 1,
                 NatOr(NatOr(ij * 2, NatAnd(ij_bits, 2) * 8), NatAnd(ij_bits, 1)),
                 NatXor(orientation, S2_POS_TO_ORIENTATION_MASK[bit_pair]))

LookupLength == Pow2(2 * S2_LOOKUP_BITS + 2)

\* The writes with the IJ table indexed by pos alone.
LookupWrites_ij_unoriented ==
    [n \in 0..(4 * 256 - 1) |->
        LET base_orientation == n \div 256
            pos == n % 256
            w == WalkBitPairs(pos, 0, 0, base_orientation)
            ij4 == w.ij * 4
            pos4 == pos * 4
        IN  [pos_index |-> NatOr(ij4, base_orientation),
             pos_value |-> NatOr(pos4, w.orientation),
             ij_index |-> pos4,
             ij_value |-> NatOr(ij4, w.orientation)]]

\* The two outer loops run 4 * 256 iterations; iteration n has
\* base_orientation n \div 256 (the slow index) and pos n % 256 (the fast
\* one).  LookupWrites[n] is what iteration n stores: the index and the
\* value written to each table.
LookupWrites ==
    [n \in 0..(4 * 256 - 1) |->
        LET base_orientation == n \div 256
            pos == n % 256
            w == WalkBitPairs(pos, 0, 0, base_orientation)
            ij4 == w.ij * 4
            pos4 == pos * 4
        IN  [pos_index |-> NatOr(ij4, base_orientation),
             pos_value |-> NatOr(pos4, w.orientation),
             ij_index |-> NatOr(pos4, base_orientation),
             ij_value |-> NatOr(ij4, w.orientation)]]

Greatest(S) == CHOOSE n \in S : \A m \in S : m <= n

\* The tables _s2_init_lookups leaves in the two globals: every entry starts
\* as 0 and keeps the value of the last iteration that wrote it.
InitLookups ==
    [pos |-> [x \in 0..(LookupLength - 1) |->
                LET writers == {n \in DOMAIN LookupWrites : LookupWrites[n].pos_index = x}
                IN  IF writers = {} THEN 0 ELSE LookupWrites[Greatest(writers)].pos_value],
     ij |-> [x \in 0..(LookupLength - 1) |->
                LET writers == {n \in DOMAIN LookupWrites : LookupWrites[n].ij_index = x}
                IN  IF writers = {} THEN 0 ELSE LookupWrites[Greatest(writers)].ij_value]]

(***************************************************************************)
(* Call results: a call either returns a value or raises an exception.     *)
(***************************************************************************)

Return(v) == [kind |-> "return", exc |-> "", val |-> v]

Raise(e) == [kind |-> "raise", exc |-> e, val |-> None]

\* A level argument is a dynamically typed value: an int, None or a non-int.
IntLevel(n) == [type |-> "int", val |-> n]

NoneLevel == [type |-> "NoneType", val |-> 0]

StrLevel == [type |-> "str", val |-> 0]

(***************************************************************************)
(* Validation                                                              *)
(***************************************************************************)

\* 0x1555555555555555: the even bit positions 0, 2, ..., 60.
TrailingBitMask == PyNat({b \in 0..(S2_POS_BITS - 1) : b % 2 = 0})

\* cell_id_is_valid without the check of the face bits.
cell_id_is_valid_any_face(cell_id) ==
    IF cell_id = PyZero THEN FALSE
    ELSE LET lowest_set_bit == BitAnd(cell_id, AddOne(BitNot(cell_id)))
         IN  BitAnd(lowest_set_bit, TrailingBitMask) # PyZero

cell_id_is_valid(cell_id) ==
    IF cell_id = PyZero THEN FALSE
    ELSE IF GreaterThan(Shr(cell_id, S2_POS_BITS), 5) THEN FALSE
    ELSE LET lowest_set_bit == BitAnd(cell_id, AddOne(BitNot(cell_id)))
         IN  IF BitAnd(lowest_set_bit, TrailingBitMask) = PyZero THEN FALSE
             ELSE TRUE

(***************************************************************************)
(* Level extraction                                                        *)
(***************************************************************************)

\* The count-trailing-zeros loop of cell_id_to_level.
RECURSIVE CountTrailingZeros(_, _)
CountTrailingZeros(cell_id, lsb_pos) ==
    IF cell_id = PyZero THEN lsb_pos
    ELSE IF BitAnd(cell_id, PyOne) # PyZero THEN lsb_pos
    ELSE CountTrailingZeros(Shr(cell_id, 1), lsb_pos + 1)

\* cell_id_to_level with the subtraction taken before the halving.
cell_id_to_level_halved_late(cell_id) ==
    IF ~cell_id_is_valid(cell_id) THEN Raise("InvalidCellID")
    ELSE Return((S2_MAX_LEVEL - CountTrailingZeros(cell_id, 0)) \div 2)

cell_id_to_level(cell_id) ==
    IF ~cell_id_is_valid(cell_id) THEN Raise("InvalidCellID")
    ELSE Return(S2_MAX_LEVEL - (CountTrailingZeros(cell_id, 0) \div 2))

(***************************************************************************)
(* Parent                                                                  *)
(***************************************************************************)

\* The truncation without the clearing of the bits below the new marker.
TruncateToLevel_uncleared(cell_id, level) ==
    BitOr(cell_id, Shl(PyOne, 2 * (S2_MAX_LEVEL - level)))

\* Truncate to the level: (cell_id & -mask) | mask with mask = 1 << 2 * (30 - level).
TruncateToLevel(cell_id, level) ==
    LET least_significant_bit_mask == Shl(PyOne, 2 * (S2_MAX_LEVEL - level))
    IN  BitOr(BitAnd(cell_id, Neg(least_significant_bit_mask)),
              least_significant_bit_mask)

\* cell_id_to_parent_cell_id rejecting the current level of the cell as well.
cell_id_to_parent_cell_id_strict(cell_id, level_arg) ==
    IF ~cell_id_is_valid(cell_id) THEN Raise("InvalidCellID")
    ELSE LET current_level == cell_id_to_level(cell_id).val
         IN  IF level_arg.type = "NoneType" /\ current_level = 0
             THEN Raise("ValueError")
             ELSE LET level == IF level_arg.type = "NoneType"
                               THEN IntLevel(current_level - 1)
                               ELSE level_arg
                  IN  IF level.type # "int" \/ level.val < 0 \/ level.val > S2_MAX_LEVEL
                      THEN Raise("ValueError")
                      ELSE IF level.val >= current_level THEN Raise("ValueError")
                      ELSE Return(TruncateToLevel(cell_id, level.val))

\* cell_id_to_parent_cell_id checking the level before the cell ID.
cell_id_to_parent_cell_id_level_first(cell_id, level_arg) ==
    IF level_arg.type # "NoneType"
       /\ (level_arg.type # "int" \/ level_arg.val < 0 \/ level_arg.val > S2_MAX_LEVEL)
    THEN Raise("ValueError")
    ELSE IF ~cell_id_is_valid(cell_id) THEN Raise("InvalidCellID")
    ELSE LET current_level == cell_id_to_level(cell_id).val
         IN  IF level_arg.type = "NoneType" /\ current_level = 0
             THEN Raise("ValueError")
             ELSE LET level == IF level_arg.type = "NoneType"
                               THEN current_level - 1
                               ELSE level_arg.val
                  IN  IF level > current_level THEN Raise("ValueError")
                      ELSE IF level = current_level THEN Return(cell_id)
                      ELSE Return(TruncateToLevel(cell_id, level))

cell_id_to_parent_cell_id(cell_id, level_arg) ==
    IF ~cell_id_is_valid(cell_id) THEN Raise("InvalidCellID")
    ELSE LET current_level == cell_id_to_level(cell_id).val
         IN  IF level_arg.type = "NoneType" /\ current_level = 0
             THEN Raise("ValueError")
             ELSE LET level == IF level_arg.type = "NoneType"
                               THEN IntLevel(current_level - 1)
                               ELSE level_arg
                  IN  IF level.type # "int" \/ level.val < 0 \/ level.val > S2_MAX_LEVEL
                      THEN Raise("ValueError")
                      ELSE IF level.val > current_level THEN Raise("ValueError")
                      ELSE IF level.val = current_level THEN Return(cell_id)
                      ELSE Return(TruncateToLevel(cell_id, level.val))

(***************************************************************************)
(* Strings: a str is a sequence of one-character strings.                  *)
(***************************************************************************)

HexDigits == <<"0", "1", "2", "3", "4", "5", "6", "7",
               "8", "9", "a", "b", "c", "d", "e", "f">>

UpperHexLetters == <<"A", "B", "C", "D", "E", "F">>

\* Characters that range from A to f in code-point order without being
\* hexadecimal digits: the upper-case letters G to Z and six punctuation
\* characters, of which the model keeps a few.
NonHexFromUpperAToLowerF == {"G", "R", "X", "Z", "[", "^", "_"}

Whitespace == {" ", "\n", "\t"}

\* The value of a character as a base-16 digit, -1 when it is not one.
HexValue(c) ==
    IF \E d \in 1..16 : HexDigits[d] = c
    THEN (CHOOSE d \in 1..16 : HexDigits[d] = c) - 1
    ELSE IF \E d \in 1..6 : UpperHexLetters[d] = c
    THEN (CHOOSE d \in 1..6 : UpperHexLetters[d] = c) + 9
    ELSE -1

\* str.rstrip of the character 0
RECURSIVE RStripZeros(_)
RStripZeros(str) ==
    IF str # <<>> /\ str[Len(str)] = "0"
    THEN RStripZeros(SubSeq(str, 1, Len(str) - 1))
    ELSE str

\* The character 0 repeated n times
Zeros(n) == [k \in 1..n |-> "0"]

\* The number of hexadecimal digits of a non-negative int, at least 1.
HexLength(x) ==
    IF x.s = {} THEN 1
    ELSE ((CHOOSE b \in x.s : \A c \in x.s : c <= b) \div 4) + 1

\* The hexadecimal digits of a non-negative int, most significant first,
\* padded with zeros on the left to at least width characters.
HexString(x, width) ==
    LET n == IF HexLength(x) > width THEN HexLength(x) ELSE width
    IN  [k \in 1..n |->
            HexDigits[1 + SumPow2({b \in 0..3 : (4 * (n - k) + b) \in x.s})]]

\* format(x) with the format {:016x}: sign-aware zero padding to 16 characters.
Format016x(x) ==
    IF ~x.inv THEN HexString(x, 16)
    ELSE <<"-">> \o HexString(Neg(x), 15)

\* The digit loop of int(str, 16): digits with single underscores between
\* them; the result is the value, or None for a malformed literal.
RECURSIVE ParseHexDigits(_, _, _, _)
ParseHexDigits(str, k, acc, prev_underscore) ==
    IF k > Len(str) THEN IF prev_underscore THEN None ELSE acc
    ELSE IF str[k] = "_"
    THEN IF prev_underscore THEN None
         ELSE ParseHexDigits(str, k + 1, acc, TRUE)
    ELSE IF HexValue(str[k]) < 0 THEN None
    ELSE ParseHexDigits(str, k + 1,
             BitOr(Shl(acc, 4), FromNat(HexValue(str[k]))), FALSE)

RECURSIVE LStrip(_)
LStrip(str) ==
    IF str # <<>> /\ str[1] \in Whitespace THEN LStrip(Tail(str)) ELSE str

RECURSIVE RStrip(_)
RStrip(str) ==
    IF str # <<>> /\ str[Len(str)] \in Whitespace
    THEN RStrip(SubSeq(str, 1, Len(str) - 1))
    ELSE str

\* The digits of an unsigned literal: what follows an optional 0x or 0X
\* and one underscore after it.
HexDigitsOf(unsigned) ==
    LET prefixed == Len(unsigned) >= 2 /\ unsigned[1] = "0" /\ unsigned[2] \in {"x", "X"}
        after_prefix == IF prefixed THEN Tail(Tail(unsigned)) ELSE unsigned
    IN  IF prefixed /\ after_prefix # <<>> /\ after_prefix[1] = "_"
        THEN Tail(after_prefix) ELSE after_prefix

\* The number a sign and digits denote, or ValueError.
ValueOfDigits(negative, digits) ==
    LET value == IF digits = <<>> \/ digits[1] = "_" THEN None
                 ELSE ParseHexDigits(digits, 1, PyZero, FALSE)
    IN  IF value = None THEN Raise("ValueError")
        ELSE Return(IF negative THEN Neg(value) ELSE value)

\* int(str, 16) of a string without surrounding whitespace.
IntOfStripped(stripped) ==
    ValueOfDigits(stripped # <<>> /\ stripped[1] = "-",
                  HexDigitsOf(IF stripped # <<>> /\ stripped[1] \in {"+", "-"}
                              THEN Tail(stripped) ELSE stripped))

\* int(str, 16): surrounding whitespace, a sign and a 0x prefix are
\* accepted; anything else that is not a digit raises ValueError.
PyIntBase16(str) == IntOfStripped(RStrip(LStrip(str)))

(***************************************************************************)
(* Cell ID <-> token                                                       *)
(***************************************************************************)

\* cell_id_to_token keeping the trailing zeros.
cell_id_to_token_unstripped(cell_id) ==
    IF cell_id = PyZero THEN Return(<<"X">>)
    ELSE Return(Format016x(cell_id))

cell_id_to_token(cell_id) ==
    IF cell_id = PyZero THEN Return(<<"X">>)
    ELSE Return(RStripZeros(Format016x(cell_id)))

\* token_to_cell_id without the padding of the token to 16 characters.
token_to_cell_id_unpadded(token) ==
    IF Len(token) > 16 THEN Raise("InvalidToken")
    ELSE IF token \in {<<"x">>, <<"X">>} THEN Return(PyZero)
    ELSE PyIntBase16(token)

token_to_cell_id(token) ==
    IF Len(token) > 16 THEN Raise("InvalidToken")
    ELSE IF token \in {<<"x">>, <<"X">>} THEN Return(PyZero)
    ELSE PyIntBase16(token \o Zeros(16 - Len(token)))

UpperCaseLetters ==
    <<"A", "B", "C", "D", "E", "F", "G", "H", "I", "J", "K", "L", "M",
      "N", "O", "P", "Q", "R", "S", "T", "U", "V", "W", "X", "Y", "Z">>

LowerCaseLetters ==
    <<"a", "b", "c", "d", "e", "f", "g", "h", "i", "j", "k", "l", "m",
      "n", "o", "p", "q", "r", "s", "t", "u", "v", "w", "x", "y", "z">>

\* str.lower()
Lower(str) ==
    [k \in 1..Len(str) |->
        IF \E n \in 1..26 : UpperCaseLetters[n] = str[k]
        THEN LowerCaseLetters[CHOOSE n \in 1..26 : UpperCaseLetters[n] = str[k]]
        ELSE str[k]]

\* str.strip()
Strip(str) == RStrip(LStrip(str))

token_to_canonical_token(token) ==
    LET stripped == RStripZeros(Strip(Lower(token)))
    IN  IF stripped \in {<<>>, <<"x">>} THEN Return(<<"X">>)
        ELSE Return(stripped)

\* A character of the class [0-9a-fA-f] as the code writes it: the last
\* range runs from A to lower-case f.
InTokenCharClass(c) ==
    \/ HexValue(c) >= 0
    \/ c \in NonHexFromUpperAToLowerF

\* re.match of ^[0-9a-fA-f]{1,16}$ on the token: $ also matches just before a
\* newline that ends the string.
TokenRegexMatches(token) ==
    \E n \in 1..16 :
        /\ n <= Len(token)
        /\ \A k \in 1..n : InTokenCharClass(token[k])
        /\ \/ n = Len(token)
           \/ n = Len(token) - 1 /\ token[Len(token)] = "\n"

token_is_valid(token) ==
    IF ~TokenRegexMatches(token) THEN Return(FALSE)
    ELSE LET cell_id == token_to_cell_id(token)
         IN  IF cell_id.kind = "raise" THEN cell_id
             ELSE Return(cell_id_is_valid(cell_id.val))

(***************************************************************************)
(* Encode: face + IJ to cell ID (the integer stage of lat_lon_to_cell_id)  *)
(***************************************************************************)

\* The number of lookup steps rounded down.
RequiredSteps_floor(level) == IF level > 0 THEN (level + 2) \div 4 ELSE 0

\* math.ceil((level + 2) / 4) if level > 0 else 0
RequiredSteps(level) == IF level > 0 THEN (level + 2 + 3) \div 4 ELSE 0

\* The lookup loop of the encoder, k running down from 7 while k > last_k.
RECURSIVE EncodeLoop(_, _, _, _, _, _, _)
EncodeLoop(k, last_k, i, j, bits, cell_id, lookup_pos) ==
    IF k <= last_k THEN cell_id
    ELSE LET offset == k * S2_LOOKUP_BITS
             lookup_mask == Pow2(S2_LOOKUP_BITS) - 1
             bits1 == bits + NatAnd(i \div Pow2(offset), lookup_mask) * Pow2(S2_LOOKUP_BITS + 2)
             bits2 == bits1 + NatAnd(j \div Pow2(offset), lookup_mask) * 4
             bits3 == lookup_pos[bits2]
         IN  EncodeLoop(k - 1, last_k, i, j,
                 NatAnd(bits3, NatOr(S2_SWAP_MASK, S2_INVERT_MASK)),
                 BitOr(cell_id, Shl(FromNat(bits3 \div 4), k * 2 * S2_LOOKUP_BITS)),
                 lookup_pos)

\* The encoder with the face placed one bit too low.
FaceIJToCellId_face_low(face, i, j, level, lookup_pos) ==
    LET bits == NatAnd(face, S2_SWAP_MASK)
        cell_id == Shl(FromNat(face), S2_POS_BITS - 2)
        looked_up == EncodeLoop(7, 7 - RequiredSteps(level), i, j, bits, cell_id, lookup_pos)
    IN  TruncateToLevel(Shl(looked_up, 1), level)

FaceIJToCellId(face, i, j, level, lookup_pos) ==
    LET bits == NatAnd(face, S2_SWAP_MASK)
        cell_id == Shl(FromNat(face), S2_POS_BITS - 1)
        looked_up == EncodeLoop(7, 7 - RequiredSteps(level), i, j, bits, cell_id, lookup_pos)
    IN  TruncateToLevel(Shl(looked_up, 1), level)

(***************************************************************************)
(* Decode: cell ID to face + Si/Ti (the integer stage of                   *)
(* cell_id_to_lat_lon)                                                     *)
(***************************************************************************)

\* The lookup loop of the decoder, k running from 7 down to 0.
RECURSIVE DecodeLoop(_, _, _, _, _, _)
DecodeLoop(k, cell_id, bits, i, j, lookup_ij) ==
    IF k < 0 THEN [i |-> i, j |-> j]
    ELSE LET n_bits == IF k = 7 THEN S2_MAX_LEVEL - 7 * S2_LOOKUP_BITS ELSE S2_LOOKUP_BITS
             extract_mask == Pow2(2 * n_bits) - 1
             lookup_mask == Pow2(S2_LOOKUP_BITS) - 1
             bits1 == bits + ToNat(BitAnd(Shr(cell_id, k * 2 * S2_LOOKUP_BITS + 1),
                                          FromNat(extract_mask))) * 4
             bits2 == lookup_ij[bits1]
             offset == k * S2_LOOKUP_BITS
         IN  DecodeLoop(k - 1, cell_id,
                 NatAnd(bits2, NatOr(S2_SWAP_MASK, S2_INVERT_MASK)),
                 PyNat(AddBits(i.s, Shl(FromNat(bits2 \div Pow2(S2_LOOKUP_BITS + 2)), offset).s)),
                 PyNat(AddBits(j.s, Shl(FromNat(NatAnd(bits2 \div 4, lookup_mask)), offset).s)),
                 lookup_ij)

\* face & _S2_SWAP_MASK, the orientation the decoding starts in.
FaceOrientation(cell_id) ==
    ToNat(BitAnd(Shr(cell_id, S2_POS_BITS), FromNat(S2_SWAP_MASK)))

\* The decoder starting every face in orientation 0.
CellIdToFaceSiTi_unoriented(cell_id, lookup_ij) ==
    LET face == ToInt(Shr(cell_id, S2_POS_BITS))
        ij == DecodeLoop(7, cell_id, 0, PyZero, PyZero, lookup_ij)
        is_leaf == BitAnd(cell_id, PyOne) # PyZero
        apply_correction ==
            ~is_leaf /\ BitAnd(BitXor(ij.i, Shr(cell_id, 2)), PyOne) # PyZero
        correction_delta == IF is_leaf THEN 1 ELSE (IF apply_correction THEN 2 ELSE 0)
    IN  [face |-> face,
         si |-> PyNat(AddBits(Shl(ij.i, 1).s, FromNat(correction_delta).s)),
         ti |-> PyNat(AddBits(Shl(ij.j, 1).s, FromNat(correction_delta).s))]

\* The decoder testing the parity of I alone, level 29 included.
CellIdToFaceSiTi_parity_only(cell_id, lookup_ij) ==
    LET face == ToInt(Shr(cell_id, S2_POS_BITS))
        ij == DecodeLoop(7, cell_id, FaceOrientation(cell_id), PyZero, PyZero, lookup_ij)
        is_leaf == BitAnd(cell_id, PyOne) # PyZero
        apply_correction == ~is_leaf /\ BitAnd(ij.i, PyOne) # PyZero
        correction_delta == IF is_leaf THEN 1 ELSE (IF apply_correction THEN 2 ELSE 0)
    IN  [face |-> face,
         si |-> PyNat(AddBits(Shl(ij.i, 1).s, FromNat(correction_delta).s)),
         ti |-> PyNat(AddBits(Shl(ij.j, 1).s, FromNat(correction_delta).s))]

\* The face and the Si/Ti of the centre of a valid cell.
CellIdToFaceSiTi(cell_id, lookup_ij) ==
    LET face == ToInt(Shr(cell_id, S2_POS_BITS))
        ij == DecodeLoop(7, cell_id, FaceOrientation(cell_id), PyZero, PyZero, lookup_ij)
        is_leaf == BitAnd(cell_id, PyOne) # PyZero
        apply_correction ==
            ~is_leaf /\ BitAnd(BitXor(ij.i, Shr(cell_id, 2)), PyOne) # PyZero
        correction_delta == IF is_leaf THEN 1 ELSE (IF apply_correction THEN 2 ELSE 0)
    IN  [face |-> face,
         si |-> PyNat(AddBits(Shl(ij.i, 1).s, FromNat(correction_delta).s)),
         ti |-> PyNat(AddBits(Shl(ij.j, 1).s, FromNat(correction_delta).s))]

(***************************************************************************)
(* Neighbours.  cell_id_to_neighbor_cell_ids is not part of the sources    *)
(* read here (its tests are): it is modelled from the specification, on    *)
(* top of the decoding, the projection and the encoding of the sources.    *)
(* Face coordinates are integers in units of 2^-30: the centre of leaf i   *)
(* has u = 2 * i + 1 - 2^30 under the linear projection, the face plane is *)
(* at 2^30, and a coordinate one leaf beyond an edge is 2^30 + 1 away.     *)
(***************************************************************************)

\* The face and the IJ of a leaf of the cell, as the lookup loop of the
\* decoder leaves them.
\* The decoding loop starting every face in orientation 0.
CellIdToFaceIJ_unoriented(cell_id, lookup_ij) ==
    LET face == ToInt(Shr(cell_id, S2_POS_BITS))
        ij == DecodeLoop(7, cell_id, 0, PyZero, PyZero, lookup_ij)
    IN  [face |-> face, i |-> ToNat(ij.i), j |-> ToNat(ij.j)]

CellIdToFaceIJ(cell_id, lookup_ij) ==
    LET face == ToInt(Shr(cell_id, S2_POS_BITS))
        ij == DecodeLoop(7, cell_id, FaceOrientation(cell_id), PyZero, PyZero, lookup_ij)
    IN  [face |-> face, i |-> ToNat(ij.i), j |-> ToNat(ij.j)]

\* A variant of s2_face_uv_to_xyz that does not mirror U and V on face 2.
s2_face_uv_to_xyz_unmirrored(face, u, v) ==
    IF face = 0 THEN <<S2_MAX_SIZE, u, v>>
    ELSE IF face = 1 THEN <<-u, S2_MAX_SIZE, v>>
    ELSE IF face = 2 THEN <<u, v, S2_MAX_SIZE>>
    ELSE IF face = 3 THEN <<-S2_MAX_SIZE, -v, -u>>
    ELSE IF face = 4 THEN <<v, -S2_MAX_SIZE, -u>>
    ELSE <<v, u, -S2_MAX_SIZE>>

\* _s2_face_uv_to_xyz, the unit being S2_MAX_SIZE.
s2_face_uv_to_xyz(face, u, v) ==
    IF face = 0 THEN <<S2_MAX_SIZE, u, v>>
    ELSE IF face = 1 THEN <<-u, S2_MAX_SIZE, v>>
    ELSE IF face = 2 THEN <<-u, -v, S2_MAX_SIZE>>
    ELSE IF face = 3 THEN <<-S2_MAX_SIZE, -v, -u>>
    ELSE IF face = 4 THEN <<v, -S2_MAX_SIZE, -u>>
    ELSE <<v, u, -S2_MAX_SIZE>>

Abs(n) == IF n < 0 THEN -n ELSE n

\* The projection leaving V as it is on face 4.
XYZToFaceUV_v_of_face_4(s2_point) ==
    LET largest == CHOOSE a \in 1..3 :
                    /\ \A b \in 1..3 : Abs(s2_point[b]) <= Abs(s2_point[a])
                    /\ \A b \in 1..(a - 1) : Abs(s2_point[b]) < Abs(s2_point[a])
        face == IF s2_point[largest] < 0 THEN largest - 1 + 3 ELSE largest - 1
        sign == IF s2_point[(face % 3) + 1] < 0 THEN -1 ELSE 1
        at(k) == s2_point[(IF k < 0 THEN k + 3 ELSE k) + 1]
        u == sign * at(1 - ((face + 1) \div 2))
        v == sign * at(2 - (face \div 2))
    IN  [face |-> face,
         u |-> IF face \in {1, 2, 5} THEN -u ELSE u,
         v |-> IF face \in {2, 5} THEN -v ELSE v,
         divisor |-> Abs(s2_point[(face % 3) + 1])]

\* The face of a point and the numerators of its U and V on that face (the
\* divisor, kept positive, is the magnitude of the largest component): the first largest
\* component chooses the face, a negative one the second three faces.
\* s2_point is indexed from 1 here, from 0 in the source, where a negative
\* index counts from the end.
XYZToFaceUV(s2_point) ==
    LET largest == CHOOSE a \in 1..3 :
                    /\ \A b \in 1..3 : Abs(s2_point[b]) <= Abs(s2_point[a])
                    /\ \A b \in 1..(a - 1) : Abs(s2_point[b]) < Abs(s2_point[a])
        face == IF s2_point[largest] < 0 THEN largest - 1 + 3 ELSE largest - 1
        sign == IF s2_point[(face % 3) + 1] < 0 THEN -1 ELSE 1
        at(k) == s2_point[(IF k < 0 THEN k + 3 ELSE k) + 1]
        u == sign * at(1 - ((face + 1) \div 2))
        v == sign * at(2 - (face \div 2))
    IN  [face |-> face,
         u |-> IF face \in {1, 2, 5} THEN -u ELSE u,
         v |-> IF face \in {2, 4, 5} THEN -v ELSE v,
         divisor |-> Abs(s2_point[(face % 3) + 1])]

\* _s2_face_uv_to_xyz with its check of the face.
s2_face_uv_to_xyz_call(face, u, v) ==
    IF face \in 0..5 THEN Return(s2_face_uv_to_xyz(face, u, v))
    ELSE Raise("ValueError")

\* The IJ of a U or V numerator: _s2_st_to_ij of the ST it projects to,
\* clamped to [0, 2^30 - 1].
UVToIJ(n) ==
    IF n >= S2_MAX_SIZE THEN S2_MAX_SIZE - 1
    ELSE IF n <= -S2_MAX_SIZE THEN 0
    ELSE (n + S2_MAX_SIZE - 1) \div 2

\* A face and IJ of which one coordinate is outside [0, 2^30), resolved by
\* projecting its UV onto the adjacent face.
WrapFaceIJ(face, i, j) ==
    LET clamp(x) == IF x < 0 THEN -1 ELSE IF x >= S2_MAX_SIZE THEN S2_MAX_SIZE ELSE x
        u == (clamp(i) - S2_MAX_SIZE) + clamp(i) + 1
        v == (clamp(j) - S2_MAX_SIZE) + clamp(j) + 1
        wrapped == XYZToFaceUV(s2_face_uv_to_xyz(face, u, v))
    IN  [face |-> wrapped.face, i |-> UVToIJ(wrapped.u), j |-> UVToIJ(wrapped.v)]

\* The order of the edge neighbours: I+1, J-1, I-1, J+1.
EdgeOffsets == <<<<1, 0>>, <<0, -1>>, <<-1, 0>>, <<0, 1>>>>

\* The diagonals.
CornerOffsets == <<<<1, 1>>, <<1, -1>>, <<-1, -1>>, <<-1, 1>>>>

\* The neighbour of the cell one cell size away along the offset: a
\* sequence of one cell ID, or of none where a diagonal leaves the face
\* through a corner of the cube.
NeighborAt(cell, level, offset, lookup_pos) ==
    LET size == Pow2(S2_MAX_LEVEL - level)
        i == cell.i + offset[1] * size
        j == cell.j + offset[2] * size
        i_outside == i < 0 \/ i >= S2_MAX_SIZE
        j_outside == j < 0 \/ j >= S2_MAX_SIZE
        neighbor == IF i_outside \/ j_outside THEN WrapFaceIJ(cell.face, i, j)
                    ELSE [face |-> cell.face, i |-> i, j |-> j]
    IN  IF i_outside /\ j_outside THEN <<>>
        ELSE <<FaceIJToCellId(neighbor.face, neighbor.i, neighbor.j, level, lookup_pos)>>

RECURSIVE NeighborsAt(_, _, _, _)
NeighborsAt(cell, level, offsets, lookup_pos) ==
    IF offsets = <<>> THEN <<>>
    ELSE NeighborAt(cell, level, Head(offsets), lookup_pos)
            \o NeighborsAt(cell, level, Tail(offsets), lookup_pos)

(***************************************************************************)
(* Inputs                                                                  *)
(***************************************************************************)

\* The number of fill patterns for the bits above the lowest set bit.
NumFills == 2

\* The number of points that are encoded.
NumPoints == 12

\* The length of the tokens that are enumerated character by character.
MaxTokenLen == 2

\* The width of a cell ID.
CellIdBits == 64

FillBit(n, b) ==
    IF n = 0 THEN FALSE
    ELSE IF n = 1 THEN TRUE
    ELSE ((b * n + (b \div n)) % 2) = 1

\* Cell IDs: every top-three-bit value, every position of the lowest set bit
\* below the face bits, filled in between; the bare face values; and zero.
CellIdInputs ==
    {PyNat({b + S2_POS_BITS : b \in NatBitSet(f, 0)} \cup {p}
           \cup {b \in (p + 1)..(S2_POS_BITS - 1) : FillBit(n, b)}) :
        f \in 0..(Pow2(S2_FACE_BITS) - 1), p \in 0..(S2_POS_BITS - 1),
        n \in 0..(NumFills - 1)}
    \cup {PyNat({b + S2_POS_BITS : b \in NatBitSet(f, 0)}) :
            f \in 0..(Pow2(S2_FACE_BITS) - 1)}

\* Integers that are no unsigned 64-bit value: negative ones and ones of
\* 2^64 and above.
OutOfRangeCellIds ==
    {Neg(FromNat(n)) : n \in 1..5}
    \cup {Neg(PyNat({b})) : b \in {56, 2 * S2_MAX_LEVEL + 2, CellIdBits}}
    \cup {PyNat({CellIdBits} \cup low) : low \in {{}, {0}, {2 * S2_MAX_LEVEL}}}

IntInputs == CellIdInputs \cup OutOfRangeCellIds

LevelInputs ==
    {NoneLevel, StrLevel} \cup {IntLevel(n) : n \in (-1)..(S2_MAX_LEVEL + 1)}

\* I and J values in [0, 2^30): the middle, the two ends in each
\* combination, then patterns.
IJInput(m) ==
    IF m \in {0, 1} THEN Pow2(S2_MAX_LEVEL - 1)
    ELSE IF m \in {2, 5, 6, 7} THEN 0
    ELSE IF m \in {3, 4, 8, 9} THEN S2_MAX_SIZE - 1
    ELSE SumPow2({b \in 0..(S2_MAX_LEVEL - 1) :
            ((((b + 1) * (m + 3) * 7919 + (b + m) * (b + 2 * m) * 1031) \div 128) % 2) = 1})

\* What the projection of a lat/lon leaves: a face and I, J in [0, 2^30).
PointInput(n) == [face |-> n % 6, i |-> IJInput(2 * n), j |-> IJInput(2 * n + 1)]

PointInputs == {PointInput(n) : n \in 0..(NumPoints - 1)}

\* A lat/lon with a NaN (face -1) or an infinity (face -2) projects to no
\* face: math.sin raises ValueError for an infinity, and math.floor raises
\* ValueError for the NaN that reaches _s2_st_to_ij.
NonFiniteLatLons == {[face |-> -1, i |-> 0, j |-> 0], [face |-> -2, i |-> 0, j |-> 0]}

\* What the projection leaves of lat 0, lon 0 and of lat 90, lon -180: the
\* middle of face 0 and the middle of face 2.
CentreOfFace(face) ==
    [face |-> face, i |-> Pow2(S2_MAX_LEVEL - 1), j |-> Pow2(S2_MAX_LEVEL - 1)]

FaceCentres == {CentreOfFace(0), CentreOfFace(2)}

LatLonInputs == PointInputs \cup FaceCentres \cup NonFiniteLatLons

\* A cell ID from the hexadecimal digits of its sixteen-digit form that
\* precede the trailing zeros.
CellIdOfDigits(digits) ==
    PyNat(UNION {{b + 4 * (16 - k) : b \in NatBitSet(digits[k], 0)} : k \in 1..Len(digits)})

\* The cells of the neighbour tests: two inside face 2 and face 3 at level
\* 12 and 10, and the level 5 cell at a corner of the cube.
NeighborTestCells ==
    {CellIdOfDigits(<<4, 6, 6, 13, 3, 1, 9>>),
     CellIdOfDigits(<<6, 10, 10, 7, 5, 9>>),
     CellIdOfDigits(<<4, 10, 10, 12>>)}

NeighborInputs == CellIdInputs \cup NeighborTestCells

TokenChars ==
    {"0", "1", "2", "8", "a", "f", "F", "x", "X", "R", "_", "\n", " ", "+", "-"}

RECURSIVE StringsOfLength(_)
StringsOfLength(n) ==
    IF n = 0 THEN {<<>>}
    ELSE {<<c>> \o str : c \in TokenChars, str \in StringsOfLength(n - 1)}

ShortTokens ==
    UNION {StringsOfLength(n) : n \in 0..MaxTokenLen}
    \cup {<<"8", "6", "R">>, <<"2", "e", "f">>, <<"2", "E", "F">>}

\* Tokens: the short ones, and each of them followed by zeros up to 16 and
\* 17 characters.
TokenInputs ==
    ShortTokens
    \cup {str \o Zeros(16 - Len(str)) : str \in ShortTokens}
    \cup {str \o Zeros(17 - Len(str)) : str \in ShortTokens}

(***************************************************************************)
(* The state: the two lookup globals and the chain of calls a client has   *)
(* made, each call after the first taking the value the previous returned. *)
(***************************************************************************)

Call(op, arg, ret) == [op |-> op, arg |-> arg, ret |-> ret]

Last(calls) == calls[Len(calls)]

\* The compositions a client makes: in each, every call after the first
\* takes the value the call before it returned.
Pipelines ==
    {<<"cell_id_to_token", "token_to_cell_id">>,
     <<"cell_id_to_parent_cell_id", "cell_id_to_parent_cell_id">>,
     <<"lat_lon_to_cell_id", "cell_id_to_parent_cell_id">>,
     <<"lat_lon_to_cell_id", "cell_id_to_lat_lon", "lat_lon_to_cell_id">>,
     <<"cell_id_to_lat_lon", "lat_lon_to_cell_id">>,
     <<"_s2_face_uv_to_xyz", "face_xyz_to_uv">>,
     <<"token_to_canonical_token", "token_to_canonical_token">>,
     <<"token_to_canonical_token", "token_to_cell_id">>,
     <<"cell_id_to_token", "token_to_canonical_token">>}

Ops(calls) == [k \in 1..Len(calls) |-> calls[k].op]

CanChain(op) ==
    /\ trace # <<>>
    /\ Last(trace).ret.kind = "return"
    /\ \E pipeline \in Pipelines :
        /\ Len(pipeline) > Len(trace)
        /\ SubSeq(pipeline, 1, Len(trace) + 1) = Append(Ops(trace), op)

\* The argument of the first call of a client is an input; the argument of
\* a later call is the value the call before it returned.
Choices(inputs, op) ==
    IF trace = <<>> THEN {[chained |-> FALSE, val |-> v] : v \in inputs}
    ELSE IF CanChain(op) THEN {[chained |-> TRUE, val |-> Last(trace).ret.val]}
    ELSE {}

Record(choice, call) == trace' = Append(trace, call) /\ UNCHANGED threads

\* The globals a call leaves and the call recorded.
Commit(choice, op, arg, call) ==
    /\ S2_LOOKUP_POS' = call.pos
    /\ S2_LOOKUP_IJ' = call.ij
    /\ Record(choice, Call(op, arg, call.ret))

\* _s2_init_lookups filling the position table alone.
s2_init_lookups_pos_only(lookup_pos, lookup_ij) ==
    IF lookup_pos = None THEN [pos |-> InitLookups.pos, ij |-> lookup_ij]
    ELSE [pos |-> lookup_pos, ij |-> lookup_ij]

\* _s2_init_lookups as a function of the two globals it reads and writes.
s2_init_lookups(lookup_pos, lookup_ij) ==
    IF lookup_pos = None \/ lookup_ij = None THEN InitLookups
    ELSE [pos |-> lookup_pos, ij |-> lookup_ij]

\* The point a cell centre projects to when it is encoded again: Si/Ti to ST
\* (_s2_si_ti_to_st), on through UV, XYZ and lat/lon and back to face and ST,
\* which are inverse to each other in exact arithmetic, then ST to IJ
\* (_s2_st_to_ij): clamp(floor(2^30 * (si / 2^31)), 0, 2^30 - 1).
s2_st_to_ij_of_si_ti(component) ==
    LET floored == Shr(component, 1)
    IN  IF GreaterThan(floored, S2_MAX_SIZE - 1) THEN S2_MAX_SIZE - 1
        ELSE ToNat(floored)

ProjectCentre(centre) ==
    [face |-> centre.face,
     i |-> s2_st_to_ij_of_si_ti(centre.si),
     j |-> s2_st_to_ij_of_si_ti(centre.ti)]

\* The level check of lat_lon_to_cell_id without its lower limit.
LevelIsInvalid_unsigned(level) ==
    level.type # "int" \/ level.val > S2_MAX_LEVEL

LevelIsInvalid(level) ==
    level.type # "int" \/ level.val < 0 \/ level.val > S2_MAX_LEVEL

(***************************************************************************)
(* The public operations                                                   *)
(***************************************************************************)

CellIdToToken ==
    \E choice \in Choices(CellIdInputs, "cell_id_to_token") :
        /\ Record(choice, Call("cell_id_to_token", choice.val,
                               cell_id_to_token(choice.val)))
        /\ UNCHANGED <<S2_LOOKUP_POS, S2_LOOKUP_IJ>>

TokenToCellId ==
    \E choice \in Choices(TokenInputs, "token_to_cell_id") :
        /\ Record(choice, Call("token_to_cell_id", choice.val,
                               token_to_cell_id(choice.val)))
        /\ UNCHANGED <<S2_LOOKUP_POS, S2_LOOKUP_IJ>>

CellIdIsValid ==
    \E choice \in Choices(IntInputs, "cell_id_is_valid") :
        /\ Record(choice, Call("cell_id_is_valid", choice.val,
                               Return(cell_id_is_valid(choice.val))))
        /\ UNCHANGED <<S2_LOOKUP_POS, S2_LOOKUP_IJ>>

TokenIsValid ==
    \E choice \in Choices(TokenInputs, "token_is_valid") :
        /\ Record(choice, Call("token_is_valid", choice.val,
                               token_is_valid(choice.val)))
        /\ UNCHANGED <<S2_LOOKUP_POS, S2_LOOKUP_IJ>>

CellIdToLevel ==
    \E choice \in Choices(IntInputs, "cell_id_to_level") :
        /\ Record(choice, Call("cell_id_to_level", choice.val,
                               cell_id_to_level(choice.val)))
        /\ UNCHANGED <<S2_LOOKUP_POS, S2_LOOKUP_IJ>>

\* A client that applies the parent operation to a parent asks for the same
\* level again.
ParentLevelChoices(choice) ==
    IF choice.chained /\ Last(trace).op = "cell_id_to_parent_cell_id"
    THEN {Last(trace).arg.level}
    ELSE LevelInputs

CellIdToParentCellId ==
    \E choice \in Choices(IntInputs, "cell_id_to_parent_cell_id") :
        \E level \in ParentLevelChoices(choice) :
            /\ Record(choice, Call("cell_id_to_parent_cell_id",
                                   [cell_id |-> choice.val, level |-> level],
                                   cell_id_to_parent_cell_id(choice.val, level)))
            /\ UNCHANGED <<S2_LOOKUP_POS, S2_LOOKUP_IJ>>

\* A client that encodes the centre of a decoded cell again asks for the
\* level of that cell.
EncodeLevelChoices(choice) ==
    IF choice.chained
    THEN {IntLevel(cell_id_to_level(Last(trace).arg).val)}
    ELSE LevelInputs

\* lat_lon_to_cell_id as a function of its arguments and the two globals:
\* the level check, the lazy initialisation of the lookups, the projection
\* of lat/lon to a face and IJ (given with the point) and the encoding of
\* face and IJ.  It gives the result and the globals it leaves.
lat_lon_to_cell_id(point, level, lookup_pos, lookup_ij) ==
    LET lookups == IF lookup_pos = None
                   THEN s2_init_lookups(lookup_pos, lookup_ij)
                   ELSE [pos |-> lookup_pos, ij |-> lookup_ij]
    IN  IF LevelIsInvalid(level)
        THEN [ret |-> Raise("ValueError"), pos |-> lookup_pos, ij |-> lookup_ij]
        ELSE IF point.face < 0
        THEN [ret |-> Raise("ValueError"), pos |-> lookups.pos, ij |-> lookups.ij]
        ELSE [ret |-> Return(FaceIJToCellId(point.face, point.i, point.j,
                                            level.val, lookups.pos)),
              pos |-> lookups.pos, ij |-> lookups.ij]

LatLonToCellId ==
    \E choice \in Choices(LatLonInputs, "lat_lon_to_cell_id") :
        \E level \in EncodeLevelChoices(choice) :
            LET point == IF choice.chained THEN ProjectCentre(choice.val)
                         ELSE choice.val
            IN  Commit(choice, "lat_lon_to_cell_id", [point |-> point, level |-> level],
                       lat_lon_to_cell_id(point, level, S2_LOOKUP_POS, S2_LOOKUP_IJ))

\* lat_lon_to_token: cell_id_to_token(lat_lon_to_cell_id(lat, lon, level)).
LatLonToToken ==
    \E choice \in Choices(LatLonInputs, "lat_lon_to_token") :
        \E level \in LevelInputs :
            \E call \in {lat_lon_to_cell_id(choice.val, level,
                                            S2_LOOKUP_POS, S2_LOOKUP_IJ)} :
                /\ S2_LOOKUP_POS' = call.pos
                /\ S2_LOOKUP_IJ' = call.ij
                /\ Record(choice, Call("lat_lon_to_token",
                        [point |-> choice.val, level |-> level],
                        IF call.ret.kind = "raise" THEN call.ret
                        ELSE cell_id_to_token(call.ret.val)))

\* cell_id_to_lat_lon as a function of its argument and the two globals:
\* the validity check, the lazy initialisation of the lookups and the
\* decoding to the face and the Si/Ti of the cell centre, which determine
\* the lat/lon returned.  It gives the result and the globals it leaves.
\* The end of cell_id_to_lat_lon: the decoded centre goes through
\* _s2_face_uv_to_xyz, which raises for a face outside 0..5; the U and V of
\* the centre do not bear on that and are left out.
CentreOrError(centre) ==
    IF s2_face_uv_to_xyz_call(centre.face, 0, 0).kind = "raise"
    THEN s2_face_uv_to_xyz_call(centre.face, 0, 0)
    ELSE Return(centre)

cell_id_to_lat_lon(cell_id, lookup_pos, lookup_ij) ==
    LET lookups == IF lookup_ij = None
                   THEN s2_init_lookups(lookup_pos, lookup_ij)
                   ELSE [pos |-> lookup_pos, ij |-> lookup_ij]
    IN  IF ~cell_id_is_valid(cell_id)
        THEN [ret |-> Raise("InvalidCellID"), pos |-> lookup_pos, ij |-> lookup_ij]
        ELSE [ret |-> CentreOrError(CellIdToFaceSiTi(cell_id, lookups.ij)),
              pos |-> lookups.pos, ij |-> lookups.ij]

CellIdToLatLon ==
    \E choice \in Choices(IntInputs, "cell_id_to_lat_lon") :
        Commit(choice, "cell_id_to_lat_lon", choice.val,
               cell_id_to_lat_lon(choice.val, S2_LOOKUP_POS, S2_LOOKUP_IJ))

\* cell_id_to_neighbor_cell_ids as a function of its arguments and the two
\* globals; it gives the result and the globals it leaves.
cell_id_to_neighbor_cell_ids(cell_id, edge, corner, lookup_pos, lookup_ij) ==
    LET lookups == IF lookup_pos = None \/ lookup_ij = None
                   THEN s2_init_lookups(lookup_pos, lookup_ij)
                   ELSE [pos |-> lookup_pos, ij |-> lookup_ij]
        cell == CellIdToFaceIJ(cell_id, lookups.ij)
        level == cell_id_to_level(cell_id).val
        offsets == (IF edge THEN EdgeOffsets ELSE <<>>)
                    \o (IF corner THEN CornerOffsets ELSE <<>>)
    IN  IF ~cell_id_is_valid(cell_id)
        THEN [ret |-> Raise("InvalidCellID"), pos |-> lookup_pos, ij |-> lookup_ij]
        ELSE [ret |-> Return(NeighborsAt(cell, level, offsets, lookups.pos)),
              pos |-> lookups.pos, ij |-> lookups.ij]

CellIdToNeighborCellIds ==
    /\ trace = <<>>
    /\ \E cell_id \in NeighborInputs, edge, corner \in BOOLEAN :
        /\ edge \/ corner
        /\ Commit([chained |-> FALSE, val |-> cell_id],
                  "cell_id_to_neighbor_cell_ids",
                  [cell_id |-> cell_id, edge |-> edge, corner |-> corner],
                  cell_id_to_neighbor_cell_ids(cell_id, edge, corner,
                                               S2_LOOKUP_POS, S2_LOOKUP_IJ))

\* The check the token functions start with: token_is_valid may itself
\* raise; a token it reports invalid raises InvalidToken.
TokenCheck(token) ==
    LET valid == token_is_valid(token)
    IN  IF valid.kind = "raise" THEN valid
        ELSE IF ~valid.val THEN Raise("InvalidToken")
        ELSE token_to_cell_id(token)

\* The token functions after the check, cell_id being what the check of the
\* token gave.
token_to_lat_lon(cell_id, lookup_pos, lookup_ij) ==
    IF cell_id.kind = "raise"
    THEN [ret |-> cell_id, pos |-> lookup_pos, ij |-> lookup_ij]
    ELSE cell_id_to_lat_lon(cell_id.val, lookup_pos, lookup_ij)

token_to_level(cell_id) ==
    IF cell_id.kind = "raise" THEN cell_id
    ELSE cell_id_to_level(cell_id.val)

token_to_parent_token(cell_id, level) ==
    LET parent == cell_id_to_parent_cell_id(cell_id.val, level)
    IN  IF cell_id.kind = "raise" THEN cell_id
        ELSE IF parent.kind = "raise" THEN parent
        ELSE cell_id_to_token(parent.val)

\* The levels asked of the parent of a token: the tokens enumerated have
\* few characters, so their cells have low levels.
TokenLevelInputs ==
    {NoneLevel, StrLevel, IntLevel(S2_MAX_LEVEL + 1)}
    \cup {IntLevel(n) : n \in (-1)..5}

TokenToLatLon ==
    \E choice \in Choices(TokenInputs, "token_to_lat_lon") :
        \E cell_id \in {TokenCheck(choice.val)} :
            Commit(choice, "token_to_lat_lon", choice.val,
                   token_to_lat_lon(cell_id, S2_LOOKUP_POS, S2_LOOKUP_IJ))

TokenToLevel ==
    \E choice \in Choices(TokenInputs, "token_to_level") :
        \E cell_id \in {TokenCheck(choice.val)} :
            /\ Record(choice, Call("token_to_level", choice.val,
                                   token_to_level(cell_id)))
            /\ UNCHANGED <<S2_LOOKUP_POS, S2_LOOKUP_IJ>>

TokenToParentToken ==
    \E choice \in Choices(TokenInputs, "token_to_parent_token") :
        \E level \in TokenLevelInputs, cell_id \in {TokenCheck(choice.val)} :
            /\ Record(choice, Call("token_to_parent_token",
                                   [token |-> choice.val, level |-> level],
                                   token_to_parent_token(cell_id, level)))
            /\ UNCHANGED <<S2_LOOKUP_POS, S2_LOOKUP_IJ>>

TokenToCanonicalToken ==
    \E choice \in Choices(TokenInputs, "token_to_canonical_token") :
        /\ Record(choice, Call("token_to_canonical_token", choice.val,
                               token_to_canonical_token(choice.val)))
        /\ UNCHANGED <<S2_LOOKUP_POS, S2_LOOKUP_IJ>>

\* A call of _s2_init_lookups itself, before or after the calls that make
\* it implicitly.
S2InitLookups ==
    /\ Len(trace) < 3
    /\ IF trace = <<>> THEN TRUE
       ELSE Last(trace).op \in {"_s2_init_lookups", "lat_lon_to_cell_id",
                                "cell_id_to_lat_lon"}
    /\ LET lookups == s2_init_lookups(S2_LOOKUP_POS, S2_LOOKUP_IJ)
       IN  /\ S2_LOOKUP_POS' = lookups.pos
           /\ S2_LOOKUP_IJ' = lookups.ij
    /\ trace' = Append(trace, Call("_s2_init_lookups", None, Return(None)))
    /\ UNCHANGED threads

(***************************************************************************)
(* Threads making their first calls at the same time.  Nothing in the      *)
(* module takes a lock, so a thread can be preempted between any two       *)
(* statements.  The steps below are the statements that read or assign the *)
(* two globals; the 256 iterations of one base orientation, and the reads  *)
(* of one conversion, are taken as one step each.                          *)
(***************************************************************************)

\* The number of threads.
NumThreads == 2

Threads == 1..NumThreads

IdleThread == [pc |-> "idle", op |-> "", arg |-> None, pass |-> 0, ret |-> None]

\* The first calls the threads make.
ThreadCalls ==
    {[op |-> "lat_lon_to_cell_id",
      arg |-> [point |-> PointInput(0), level |-> IntLevel(S2_MAX_LEVEL)]],
     [op |-> "lat_lon_to_cell_id",
      arg |-> [point |-> PointInput(1), level |-> IntLevel(12)]],
     [op |-> "cell_id_to_lat_lon", arg |-> PyNat({0, 2 * S2_MAX_LEVEL})],
     [op |-> "cell_id_to_lat_lon", arg |-> PyNat({36, S2_POS_BITS + 1})]}

\* What the iterations of each base orientation store: for every index of
\* each table the value stored, or -1 for an index they leave alone.
PassWrites ==
    [base_orientation \in 0..3 |->
        LET pass == {n \in DOMAIN LookupWrites : n \div 256 = base_orientation}
        IN  [pos |-> [x \in 0..(LookupLength - 1) |->
                        LET writers == {n \in pass : LookupWrites[n].pos_index = x}
                        IN  IF writers = {} THEN -1
                            ELSE LookupWrites[Greatest(writers)].pos_value],
             ij |-> [x \in 0..(LookupLength - 1) |->
                        LET writers == {n \in pass : LookupWrites[n].ij_index = x}
                        IN  IF writers = {} THEN -1
                            ELSE LookupWrites[Greatest(writers)].ij_value]]]

\* [0] * lookup_length
ZeroTable == [x \in 0..(LookupLength - 1) |-> 0]

\* The thread enters the public function: the check of the argument, then
\* the test of the global the function is about to read.
ThreadCall(t) ==
    /\ threads[t].pc = "idle"
    /\ \E call \in ThreadCalls :
        LET lookup == IF call.op = "lat_lon_to_cell_id"
                      THEN S2_LOOKUP_POS ELSE S2_LOOKUP_IJ
        IN  threads' = [threads EXCEPT ![t] =
                [pc |-> IF lookup = None THEN "init_guard" ELSE "convert",
                 op |-> call.op, arg |-> call.arg, pass |-> 0, ret |-> None]]
    /\ UNCHANGED <<S2_LOOKUP_POS, S2_LOOKUP_IJ, trace>>

\* if _S2_LOOKUP_POS is None or _S2_LOOKUP_IJ is None
ThreadInitGuard(t) ==
    /\ threads[t].pc = "init_guard"
    /\ threads' = [threads EXCEPT ![t].pc =
            IF S2_LOOKUP_POS = None \/ S2_LOOKUP_IJ = None
            THEN "alloc_pos" ELSE "convert"]
    /\ UNCHANGED <<S2_LOOKUP_POS, S2_LOOKUP_IJ, trace>>

\* _S2_LOOKUP_POS = [0] * lookup_length
ThreadAllocPos(t) ==
    /\ threads[t].pc = "alloc_pos"
    /\ S2_LOOKUP_POS' = ZeroTable
    /\ threads' = [threads EXCEPT ![t].pc = "alloc_ij"]
    /\ UNCHANGED <<S2_LOOKUP_IJ, trace>>

\* _S2_LOOKUP_IJ = [0] * lookup_length
ThreadAllocIJ(t) ==
    /\ threads[t].pc = "alloc_ij"
    /\ S2_LOOKUP_IJ' = ZeroTable
    /\ threads' = [threads EXCEPT ![t].pc = "fill", ![t].pass = 0]
    /\ UNCHANGED <<S2_LOOKUP_POS, trace>>

\* The iterations of one base orientation, storing into the lists the
\* globals name now.
ThreadFill(t) ==
    /\ threads[t].pc = "fill"
    /\ LET writes == PassWrites[threads[t].pass]
       IN  /\ S2_LOOKUP_POS' = [x \in 0..(LookupLength - 1) |->
                    IF writes.pos[x] >= 0 THEN writes.pos[x] ELSE S2_LOOKUP_POS[x]]
           /\ S2_LOOKUP_IJ' = [x \in 0..(LookupLength - 1) |->
                    IF writes.ij[x] >= 0 THEN writes.ij[x] ELSE S2_LOOKUP_IJ[x]]
    /\ threads' = [threads EXCEPT
            ![t].pc = IF threads[t].pass = 3 THEN "convert" ELSE "fill",
            ![t].pass = IF threads[t].pass = 3 THEN 0 ELSE threads[t].pass + 1]
    /\ UNCHANGED trace

\* The conversion, reading the table the global names now.
ThreadConvert(t) ==
    /\ threads[t].pc = "convert"
    /\ threads' = [threads EXCEPT ![t].pc = "done", ![t].ret =
            IF threads[t].op = "lat_lon_to_cell_id"
            THEN Return(FaceIJToCellId(threads[t].arg.point.face,
                                       threads[t].arg.point.i,
                                       threads[t].arg.point.j,
                                       threads[t].arg.level.val, S2_LOOKUP_POS))
            ELSE Return(CellIdToFaceSiTi(threads[t].arg, S2_LOOKUP_IJ))]
    /\ UNCHANGED <<S2_LOOKUP_POS, S2_LOOKUP_IJ, trace>>

Init ==
    /\ S2_LOOKUP_POS = None
    /\ S2_LOOKUP_IJ = None
    /\ trace = <<>>
    /\ threads = [t \in Threads |-> IdleThread]

\* Faces handed to _s2_face_uv_to_xyz, some of them outside 0..5.
FaceInputs == (-1)..7

\* U and V numerators of magnitude below one, the unit being S2_MAX_SIZE.
UVInputs == {-(S2_MAX_SIZE - 1), -3, 0, 2, S2_MAX_SIZE - 1}

\* Points of the sphere by the direction of their XYZ.
XYZComponents == {-3, -2, 0, 1, 3}
XYZInputs ==
    {<<x, y, z>> : x \in XYZComponents, y \in XYZComponents, z \in XYZComponents}
        \ {<<0, 0, 0>>}

S2FaceUVToXYZ ==
    /\ trace = <<>>
    /\ \E face \in FaceInputs, u \in UVInputs, v \in UVInputs :
        Record([chained |-> FALSE, val |-> None],
               Call("_s2_face_uv_to_xyz", [face |-> face, u |-> u, v |-> v],
                    s2_face_uv_to_xyz_call(face, u, v)))
    /\ UNCHANGED <<S2_LOOKUP_POS, S2_LOOKUP_IJ>>

\* The face selection and UV projection of lat_lon_to_cell_id.
FaceXYZToUV ==
    /\ \E choice \in Choices(XYZInputs, "face_xyz_to_uv") :
        Record(choice, Call("face_xyz_to_uv", choice.val, Return(XYZToFaceUV(choice.val))))
    /\ UNCHANGED <<S2_LOOKUP_POS, S2_LOOKUP_IJ>>

\* An ST component s in [0, 1], given by 2^30 * s as a whole number and a
\* number of quarters; the product and the subtraction of 0.5 are exact in
\* double precision for such an s.
STInput(whole, quarters) == [whole |-> whole, quarters |-> quarters]

STInputs ==
    {STInput(whole, quarters) :
        whole \in {0, 1, 2, 3, Pow2(S2_MAX_LEVEL - 1), S2_MAX_SIZE - 2, S2_MAX_SIZE - 1},
        quarters \in 0..3}
    \cup {STInput(S2_MAX_SIZE, 0)}

\* math.floor of the scaled component.
Floor(scaled) == scaled.whole

\* The scaled component less 0.5.
LessHalf(scaled) ==
    IF scaled.quarters >= 2 THEN STInput(scaled.whole, scaled.quarters - 2)
    ELSE STInput(scaled.whole - 1, scaled.quarters + 2)

\* round of Python and of numpy: to the nearest integer, a half going to the
\* even neighbour.
Round(scaled) ==
    IF scaled.quarters < 2 THEN scaled.whole
    ELSE IF scaled.quarters > 2 THEN scaled.whole + 1
    ELSE IF scaled.whole % 2 = 0 THEN scaled.whole
    ELSE scaled.whole + 1

Max(a, b) == IF a >= b THEN a ELSE b
Min(a, b) == IF a <= b THEN a ELSE b

\* _s2_st_to_ij of s2cell.py.
s2_st_to_ij(component) == Max(0, Min(S2_MAX_SIZE - 1, Floor(component)))

\* _s2_st_to_ij of the package module __init__.py.
init_s2_st_to_ij(component) == Max(0, Min(S2_MAX_SIZE - 1, Round(LessHalf(component))))

S2StToIJ ==
    /\ trace = <<>>
    /\ \E component \in STInputs :
        Record([chained |-> FALSE, val |-> component],
               Call("_s2_st_to_ij", component, Return(s2_st_to_ij(component))))
    /\ UNCHANGED <<S2_LOOKUP_POS, S2_LOOKUP_IJ>>

\* The same component is converted by the other implementation after the
\* first.
InitS2StToIJ ==
    /\ \E component \in (IF trace = <<>> THEN STInputs
                          ELSE IF Len(trace) = 1 /\ Last(trace).op = "_s2_st_to_ij"
                          THEN {Last(trace).arg} ELSE {}) :
        Record([chained |-> trace # <<>>, val |-> component],
               Call("__init__._s2_st_to_ij", component, Return(init_s2_st_to_ij(component))))
    /\ UNCHANGED <<S2_LOOKUP_POS, S2_LOOKUP_IJ>>

Next ==
    \/ CellIdToToken
    \/ TokenToCellId
    \/ CellIdIsValid
    \/ TokenIsValid
    \/ CellIdToLevel
    \/ CellIdToParentCellId
    \/ LatLonToCellId
    \/ CellIdToLatLon
    \/ TokenToCanonicalToken
    \/ S2InitLookups
    \/ LatLonToToken
    \/ TokenToLatLon
    \/ TokenToLevel
    \/ TokenToParentToken
    \/ CellIdToNeighborCellIds
    \/ S2FaceUVToXYZ
    \/ FaceXYZToUV
    \/ S2StToIJ
    \/ InitS2StToIJ

Spec == Init /\ [][Next]_vars

NextThreads ==
    \E t \in Threads :
        \/ ThreadCall(t)
        \/ ThreadInitGuard(t)
        \/ ThreadAllocPos(t)
        \/ ThreadAllocIJ(t)
        \/ ThreadFill(t)
        \/ ThreadConvert(t)

\* Threads making their first calls concurrently.
SpecThreads == Init /\ [][NextThreads]_vars

TypeOK ==
    /\ S2_LOOKUP_POS = None \/ S2_LOOKUP_POS = InitLookups.pos
    /\ S2_LOOKUP_IJ = None \/ S2_LOOKUP_IJ = InitLookups.ij
    /\ Len(trace) <= 3

(***************************************************************************)
(* Vocabulary of the properties                                            *)
(***************************************************************************)

\* The call before the last one.
Previous(calls) == calls[Len(calls) - 1]

LastIs(op) == trace # <<>> /\ Last(trace).op = op

\* The last call is op and took its argument from a call of producer.
LastTwoAre(producer, op) ==
    /\ Len(trace) >= 2
    /\ Previous(trace).op = producer
    /\ Last(trace).op = op

\* c is in 0 .. 2^64 - 1.
IsUInt64(c) == ~c.inv /\ \A b \in c.s : b < CellIdBits

\* The value of bits 61 to 63 of a 64-bit cell ID.
TopThreeBits(c) == SumPow2({b - S2_POS_BITS : b \in {x \in c.s : x >= S2_POS_BITS}})

\* The bits of c above position p.
BitsAbove(c, p) == {b \in c.s : b > p}

\* The validity of a 64-bit cell ID as the data model states it: not zero,
\* a face of at most 5, the lowest set bit at an even position of at most 60.
WellFormedCellId(c) ==
    /\ c.s # {}
    /\ TopThreeBits(c) <= 5
    /\ LowestBit(c.s) % 2 = 0
    /\ LowestBit(c.s) <= 2 * S2_MAX_LEVEL

\* 30 - (trailing_zeros(c) / 2)
LevelOf(c) == S2_MAX_LEVEL - (LowestBit(c.s) \div 2)

\* The string matches ^[0-9a-fA-F]{1,16}$.
IsHexToken(token) ==
    /\ Len(token) \in 1..16
    /\ \A k \in 1..Len(token) : HexValue(token[k]) >= 0

(***************************************************************************)
(* Properties                                                              *)
(***************************************************************************)

\* C1: for every cell ID c in 0 .. 2^64 - 1, zero included,
\* token_to_cell_id(cell_id_to_token(c)) returns c.
C1_TokenRoundTrip ==
    (LastTwoAre("cell_id_to_token", "token_to_cell_id")
     /\ IsUInt64(Previous(trace).arg))
        => Last(trace).ret = Return(Previous(trace).arg)

\* A cell ID whose token lost trailing zeros has been converted back.
C1_Witness ==
    /\ LastTwoAre("cell_id_to_token", "token_to_cell_id")
    /\ Previous(trace).arg # PyZero
    /\ Len(Last(trace).arg) < 16
    /\ Last(trace).ret.kind = "return"

\* C2: cell_id_is_valid(id) is true exactly when id is not zero, its top
\* three bits are at most 5 and its lowest set bit is at an even position of
\* at most 60; 1 << n is valid for even n in 0..60, invalid for odd n in 1..59.
C2_CellIdIsValid ==
    (LastIs("cell_id_is_valid") /\ IsUInt64(Last(trace).arg))
        => /\ Last(trace).ret = Return(WellFormedCellId(Last(trace).arg))
           /\ \A n \in 0..(2 * S2_MAX_LEVEL) :
                Last(trace).arg = PyNat({n})
                    => Last(trace).ret.val = (n % 2 = 0)

\* A cell ID with face bits and position bits above its marker was accepted.
C2_Witness ==
    /\ LastIs("cell_id_is_valid")
    /\ Last(trace).ret.val = TRUE
    /\ TopThreeBits(Last(trace).arg) = 5
    /\ Cardinality(Last(trace).arg.s) > 4

\* C3: cell_id_to_level(id) raises InvalidCellID exactly when
\* cell_id_is_valid(id) is false; for a valid id it returns
\* 30 - (count_trailing_zeros(id) / 2), an integer in 0..30.
C3_CellIdToLevel ==
    (LastIs("cell_id_to_level") /\ IsUInt64(Last(trace).arg))
        => IF cell_id_is_valid(Last(trace).arg)
           THEN /\ Last(trace).ret = Return(LevelOf(Last(trace).arg))
                /\ Last(trace).ret.val \in 0..S2_MAX_LEVEL
           ELSE Last(trace).ret = Raise("InvalidCellID")

\* The level of a cell between face level and leaf level was returned.
C3_Witness ==
    /\ LastIs("cell_id_to_level")
    /\ Last(trace).ret.kind = "return"
    /\ Last(trace).ret.val = 17

\* C4: for a valid id and a level L with 0 <= L <= cell_id_to_level(id),
\* cell_id_to_parent_cell_id(id, L) is a valid cell ID of level exactly L,
\* with the face bits of id and equal to id on every bit above the marker
\* position 2 * (30 - L).
C4_ParentIsValidPrefix ==
    (/\ LastIs("cell_id_to_parent_cell_id")
     /\ IsUInt64(Last(trace).arg.cell_id)
     /\ cell_id_is_valid(Last(trace).arg.cell_id)
     /\ Last(trace).arg.level.type = "int"
     /\ Last(trace).arg.level.val >= 0
     /\ Last(trace).arg.level.val <= cell_id_to_level(Last(trace).arg.cell_id).val)
        => LET id == Last(trace).arg.cell_id
               L == Last(trace).arg.level.val
               parent == Last(trace).ret.val
           IN  /\ Last(trace).ret.kind = "return"
               /\ cell_id_is_valid(parent)
               /\ cell_id_to_level(parent) = Return(L)
               /\ TopThreeBits(parent) = TopThreeBits(id)
               /\ BitsAbove(parent, 2 * (S2_MAX_LEVEL - L))
                    = BitsAbove(id, 2 * (S2_MAX_LEVEL - L))

\* A parent several levels up was taken of a cell with position bits below
\* the new marker.
C4_Witness ==
    /\ LastIs("cell_id_to_parent_cell_id")
    /\ Last(trace).ret.kind = "return"
    /\ Last(trace).arg.level = IntLevel(11)
    /\ Last(trace).ret.val # Last(trace).arg.cell_id
    /\ \E b \in Last(trace).arg.cell_id.s :
            b < 2 * (S2_MAX_LEVEL - 11) /\ b \notin Last(trace).ret.val.s

\* C5: truncation is idempotent: for a valid id and a level L up to its
\* level, the parent at level L of the parent at level L is accepted and is
\* that parent.
C5_ParentIdempotent ==
    (/\ LastTwoAre("cell_id_to_parent_cell_id", "cell_id_to_parent_cell_id")
     /\ Previous(trace).arg.level.type = "int"
     /\ Last(trace).arg.level = Previous(trace).arg.level)
        => Last(trace).ret = Previous(trace).ret

\* The parent at a lower level was asked for that level again.
C5_Witness ==
    /\ LastTwoAre("cell_id_to_parent_cell_id", "cell_id_to_parent_cell_id")
    /\ Previous(trace).arg.level.type = "int"
    /\ Previous(trace).ret.val # Previous(trace).arg.cell_id
    /\ Last(trace).ret.kind = "return"

\* C6: cell_id_to_parent_cell_id raises InvalidCellID for an invalid id
\* whatever the level; without a level it returns the parent at the current
\* level minus one, and raises a level error at level 0; it raises a level
\* error for a level that is not an integer in 0..30 and for a level above
\* the current one; it returns id for the current level; a call that fails
\* returns no cell ID.
C6_ParentArguments ==
    (LastIs("cell_id_to_parent_cell_id") /\ IsUInt64(Last(trace).arg.cell_id))
        => LET id == Last(trace).arg.cell_id
               level == Last(trace).arg.level
               ret == Last(trace).ret
           IN  IF ~WellFormedCellId(id) THEN ret = Raise("InvalidCellID")
               ELSE IF level.type = "NoneType"
               THEN IF LevelOf(id) = 0 THEN ret = Raise("ValueError")
                    ELSE ret = cell_id_to_parent_cell_id(id, IntLevel(LevelOf(id) - 1))
                         /\ ret.kind = "return"
               ELSE IF level.type # "int" \/ level.val < 0 \/ level.val > S2_MAX_LEVEL
               THEN ret = Raise("ValueError")
               ELSE IF level.val > LevelOf(id) THEN ret = Raise("ValueError")
               ELSE IF level.val = LevelOf(id) THEN ret = Return(id)
               ELSE ret.kind = "return"

\* An invalid cell ID was passed together with a level that is invalid too.
C6_Witness ==
    /\ LastIs("cell_id_to_parent_cell_id")
    /\ ~WellFormedCellId(Last(trace).arg.cell_id)
    /\ Last(trace).arg.level = IntLevel(S2_MAX_LEVEL + 1)
    /\ Last(trace).ret = Raise("InvalidCellID")

\* C7: for every face in 0..5, I and J in [0, 2^30) and level L in 0..30 the
\* encoding returns a valid cell ID, never zero, of level exactly L whose top
\* three bits are the face; the position bits of the first lookup step
\* (k = 7) stay below the face bits.
C7_EncodeIsValid ==
    (/\ LastIs("lat_lon_to_cell_id")
     /\ ~LevelIsInvalid(Last(trace).arg.level)
     /\ Last(trace).arg.point.face \in 0..5)
        => LET cell_id == Last(trace).ret.val
               point == Last(trace).arg.point
           IN  /\ Last(trace).ret.kind = "return"
               /\ cell_id # PyZero
               /\ IsUInt64(cell_id)
               /\ cell_id_is_valid(cell_id)
               /\ cell_id_to_level(cell_id) = Return(Last(trace).arg.level.val)
               /\ TopThreeBits(cell_id) = point.face
               /\ \A i2 \in 0..3 : \A j2 \in 0..3 : \A o \in 0..1 :
                    S2_LOOKUP_POS[(i2 * Pow2(S2_LOOKUP_BITS) + j2) * 4 + o] \div 4
                        < Pow2(S2_LOOKUP_BITS)

\* A point with the top bit of J set was encoded on face 5.
C7_Witness ==
    /\ LastIs("lat_lon_to_cell_id")
    /\ Last(trace).ret.kind = "return"
    /\ Last(trace).arg.point.face = 5
    /\ Last(trace).arg.point.j >= Pow2(S2_MAX_LEVEL - 1)
    /\ Last(trace).arg.level.val = 13

\* C8: encoding and parent agree: for a point encoded at level L1, the parent
\* at a level L2 <= L1 is the encoding of the point at L2, the parent without
\* a level is the encoding at L1 - 1 when L1 > 0, and a level above L1 fails.
C8_EncodeParentAgree ==
    (/\ LastTwoAre("lat_lon_to_cell_id", "cell_id_to_parent_cell_id")
     /\ Len(trace) = 2)
        => LET point == Previous(trace).arg.point
               L1 == Previous(trace).arg.level.val
               level == Last(trace).arg.level
               ret == Last(trace).ret
               encode(L) == Return(FaceIJToCellId(point.face, point.i, point.j,
                                                  L, S2_LOOKUP_POS))
           IN  /\ (level.type = "int" /\ level.val >= 0 /\ level.val <= L1)
                    => ret = encode(level.val)
               /\ (level.type = "NoneType" /\ L1 > 0) => ret = encode(L1 - 1)
               /\ (level.type = "int" /\ level.val > L1) => ret.kind = "raise"

\* The parent several lookup steps up was taken of an encoded point.
C8_Witness ==
    /\ LastTwoAre("lat_lon_to_cell_id", "cell_id_to_parent_cell_id")
    /\ Previous(trace).arg.level.val = 27
    /\ Last(trace).arg.level = IntLevel(9)
    /\ Last(trace).ret.kind = "return"
    /\ Previous(trace).arg.point.i % 2 = 1

\* C9: centre round trip: encoding the centre that cell_id_to_lat_lon returns
\* for a cell, at the level of the cell, returns the cell ID that was decoded.
C9_CentreRoundTrip ==
    LastTwoAre("cell_id_to_lat_lon", "lat_lon_to_cell_id")
        => Last(trace).ret = Return(Previous(trace).arg)

\* An encoded point was decoded and its centre, reached by the correction of
\* the decoder, was encoded again.
C9_Witness ==
    /\ Len(trace) = 3
    /\ LastTwoAre("cell_id_to_lat_lon", "lat_lon_to_cell_id")
    /\ trace[1].op = "lat_lon_to_cell_id"
    /\ trace[1].arg.level.val = 12
    /\ 0 \notin Previous(trace).ret.val.si.s
    /\ Previous(trace).ret.val.si # Shl(FromNat(trace[1].arg.point.i), 1)
    /\ Last(trace).ret.kind = "return"

\* C10: token_is_valid(t) returns a boolean for every string t, never
\* raising, and the boolean is true exactly when t matches
\* ^[0-9a-fA-F]{1,16}$ and token_to_cell_id(t) is a valid cell ID.
C10_TokenIsValid ==
    LastIs("token_is_valid")
        => Last(trace).ret =
             Return(/\ IsHexToken(Last(trace).arg)
                    /\ cell_id_is_valid(token_to_cell_id(Last(trace).arg).val))

\* The number that a string of hexadecimal digits denotes.
HexNumber(str) ==
    PyNat(UNION {{4 * (Len(str) - k) + b : b \in NatBitSet(HexValue(str[k]), 0)} :
                    k \in 1..Len(str)})

\* C11: token_to_cell_id(t) returns 0 for x and X, fails with InvalidToken
\* for every string longer than 16 characters and every string with a
\* character that is not a hexadecimal digit, and for every other string
\* returns the number, in 0 .. 2^64 - 1, that t padded on the right with 0
\* to 16 characters denotes in hexadecimal.
C11_TokenToCellId ==
    LastIs("token_to_cell_id")
        => LET t == Last(trace).arg
               ret == Last(trace).ret
           IN  IF t \in {<<"x">>, <<"X">>} THEN ret = Return(PyZero)
               ELSE IF Len(t) > 16 \/ \E k \in 1..Len(t) : HexValue(t[k]) < 0
               THEN ret = Raise("InvalidToken")
               ELSE /\ ret = Return(HexNumber(t \o Zeros(16 - Len(t))))
                    /\ IsUInt64(ret.val)

\* The characters [0-9a-f].
LowerHexChars ==
    {"0", "1", "2", "3", "4", "5", "6", "7", "8", "9", "a", "b", "c", "d", "e", "f"}

\* C12: cell_id_to_token(id) returns X for id = 0; for every other id in
\* 1 .. 2^64 - 1 it returns the 16-digit lower-case hexadecimal form of id
\* without its trailing 0 characters: 1 to 16 characters of [0-9a-f], the
\* last of them not 0.
C12_CellIdToToken ==
    (LastIs("cell_id_to_token") /\ IsUInt64(Last(trace).arg))
        => LET id == Last(trace).arg
               token == Last(trace).ret.val
           IN  /\ Last(trace).ret.kind = "return"
               /\ IF id = PyZero THEN token = <<"X">>
                  ELSE /\ Len(token) \in 1..16
                       /\ \A k \in 1..Len(token) : token[k] \in LowerHexChars
                       /\ token[Len(token)] # "0"
                       /\ HexNumber(token \o Zeros(16 - Len(token))) = id

\* A cell ID of face 0 gave a token with a leading 0 and fewer than 16
\* characters.
C12_Witness ==
    /\ LastIs("cell_id_to_token")
    /\ Last(trace).arg # PyZero
    /\ Len(Last(trace).ret.val) \in 2..15
    /\ Last(trace).ret.val[1] = "0"

\* C13: for every string t, token_to_canonical_token(t) is in canonical
\* form: lower case except for the token X, without whitespace, without a
\* trailing 0, and X, never x or the empty string, for the zero cell ID.
C13_CanonicalToken ==
    LastIs("token_to_canonical_token")
        => LET token == Last(trace).ret.val
           IN  /\ Last(trace).ret.kind = "return"
               /\ token # <<"X">>
                    => \A k \in 1..Len(token) : \A n \in 1..26 :
                            token[k] # UpperCaseLetters[n]
               /\ \A k \in 1..Len(token) : token[k] \notin Whitespace
               /\ token # <<>> => token[Len(token)] # "0"
               /\ token \notin {<<>>, <<"x">>}

\* Both tables hold every entry _s2_init_lookups gives them.
TablesConstructed ==
    S2_LOOKUP_POS = InitLookups.pos /\ S2_LOOKUP_IJ = InitLookups.ij

\* C14: the lazy initialisation of the lookup tables is safe when threads
\* make their first calls concurrently: no thread reads a table before both
\* tables are fully constructed, and no thread resets a table while another
\* thread is filling or reading it.
C14_ConcurrentFirstCalls ==
    /\ [](\A t \in Threads : threads[t].pc = "convert" => TablesConstructed)
    /\ [][\A t \in Threads :
            (threads[t].pc \in {"alloc_pos", "alloc_ij"}
             /\ threads'[t].pc # threads[t].pc)
                => \A u \in Threads \ {t} :
                        threads[u].pc \notin {"fill", "convert"}]_vars

\* C15: the initialisation of the tables is idempotent and the tables are
\* read-only afterwards: once _s2_init_lookups has completed, a further call
\* of it and every public operation leave every entry of both tables
\* unchanged; and in a sequential run the first call populates both tables,
\* never one without the other.
C15_TablesReadOnly ==
    /\ [](S2_LOOKUP_POS = None <=> S2_LOOKUP_IJ = None)
    /\ [](S2_LOOKUP_POS # None => TablesConstructed)
    /\ [][S2_LOOKUP_POS # None
            => (S2_LOOKUP_POS' = S2_LOOKUP_POS /\ S2_LOOKUP_IJ' = S2_LOOKUP_IJ)]_vars

\* _s2_init_lookups was called again after a decoding had populated the
\* tables.
C15_Witness ==
    /\ Len(trace) = 3
    /\ trace[1].op = "cell_id_to_lat_lon"
    /\ trace[1].ret.kind = "return"
    /\ trace[2].op = "_s2_init_lookups"
    /\ trace[3].op = "_s2_init_lookups"
    /\ TablesConstructed

\* An integer in [0, 30].
IsLevel(level) == level.type = "int" /\ level.val \in 0..S2_MAX_LEVEL

LastIsEncoding == LastIs("lat_lon_to_cell_id") \/ LastIs("lat_lon_to_token")

\* What the claim C16 says of the last call, an encoding.
LevelErrorExactly ==
    /\ Last(trace).ret.kind = "raise" <=> ~IsLevel(Last(trace).arg.level)
    /\ ~IsLevel(Last(trace).arg.level)
        => /\ Last(trace).ret = Raise("ValueError")
           /\ Len(trace) = 1 => (S2_LOOKUP_POS = None /\ S2_LOOKUP_IJ = None)

\* C16 as claimed: lat_lon_to_cell_id and lat_lon_to_token fail with a level
\* error, for every lat/lon, exactly when the level is not an integer in
\* [0, 30]; for every level in 0..30 they return a result; the level check
\* comes before any initialisation of the tables.
C16_LevelErrorEveryLatLon == LastIsEncoding => LevelErrorExactly

\* C16 as amended: the same for every finite lat/lon.
C16_LevelErrorFiniteLatLon ==
    (LastIsEncoding /\ Last(trace).arg.point.face \in 0..5) => LevelErrorExactly

\* lat_lon_to_token was the first call, with level 31: it failed and left
\* the tables alone.
C16_Witness ==
    /\ Len(trace) = 1
    /\ LastIs("lat_lon_to_token")
    /\ Last(trace).arg.point.face \in 0..5
    /\ Last(trace).arg.level = IntLevel(S2_MAX_LEVEL + 1)
    /\ Last(trace).ret.kind = "raise"
    /\ S2_LOOKUP_POS = None

\* What the cell-ID operation under a token function returns for the cell
\* ID of the token of the last call.
CellIdOperationOnToken ==
    LET op == Last(trace).op
        arg == Last(trace).arg
        token == IF op = "token_to_parent_token" THEN arg.token ELSE arg
        cell_id == HexNumber(token \o Zeros(16 - Len(token)))
        parent == cell_id_to_parent_cell_id(cell_id, arg.level)
    IN  IF op = "token_to_level" THEN cell_id_to_level(cell_id)
        ELSE IF op = "token_to_lat_lon"
        THEN Return(CellIdToFaceSiTi(cell_id, InitLookups.ij))
        ELSE IF parent.kind = "raise" THEN parent
        ELSE cell_id_to_token(parent.val)

\* C17: token_to_lat_lon, token_to_level and token_to_parent_token fail with
\* InvalidToken for every string that has a character that is not a
\* hexadecimal digit, is longer than 16 characters, is empty or decodes to an
\* invalid cell ID, and for every other string return what the cell-ID
\* operation returns on token_to_cell_id(t).
C17_TokenFacades ==
    (LastIs("token_to_lat_lon") \/ LastIs("token_to_level")
     \/ LastIs("token_to_parent_token"))
        => LET token == IF Last(trace).op = "token_to_parent_token"
                        THEN Last(trace).arg.token ELSE Last(trace).arg
           IN  IF ~IsHexToken(token) THEN Last(trace).ret = Raise("InvalidToken")
               ELSE IF ~WellFormedCellId(HexNumber(token \o Zeros(16 - Len(token))))
               THEN Last(trace).ret = Raise("InvalidToken")
               ELSE Last(trace).ret = CellIdOperationOnToken

(***************************************************************************)
(* C18: the edge neighbours                                                *)
(***************************************************************************)

\* The last call asked a valid cell ID for its edge neighbours only.
LastIsEdgeNeighbors ==
    /\ LastIs("cell_id_to_neighbor_cell_ids")
    /\ Last(trace).arg.edge
    /\ ~Last(trace).arg.corner
    /\ WellFormedCellId(Last(trace).arg.cell_id)

\* The last call asked a valid cell ID for its corner neighbours only.
LastIsCornerNeighbors ==
    /\ LastIs("cell_id_to_neighbor_cell_ids")
    /\ ~Last(trace).arg.edge
    /\ Last(trace).arg.corner
    /\ WellFormedCellId(Last(trace).arg.cell_id)

\* The face and the I and J of a cell counted in cells of its level.
CellOf(c) ==
    LET leaf == CellIdToFaceIJ(c, InitLookups.ij)
        size == Pow2(S2_MAX_LEVEL - LevelOf(c))
    IN  [face |-> leaf.face, i |-> leaf.i \div size, j |-> leaf.j \div size]

\* How many edges of its face the cell c touches, and whether it touches
\* two that meet, which puts it at a corner of the cube.
EdgesTouched(c) ==
    LET cell == CellOf(c)
        last == Pow2(LevelOf(c)) - 1
    IN  Cardinality({side \in {"i0", "i1", "j0", "j1"} :
            \/ side = "i0" /\ cell.i = 0
            \/ side = "i1" /\ cell.i = last
            \/ side = "j0" /\ cell.j = 0
            \/ side = "j1" /\ cell.j = last})

AtCubeCorner(c) ==
    LET cell == CellOf(c)
        last == Pow2(LevelOf(c)) - 1
    IN  cell.i \in {0, last} /\ cell.j \in {0, last}

\* How many of the cells are on face f.
CountOnFace(cells, f) ==
    Cardinality({k \in 1..Len(cells) : TopThreeBits(cells[k]) = f})

\* The cells are four edge neighbours of c: four different valid cell IDs
\* of the level of c; those on the face of c one cell away along I or along
\* J; as many on other faces as c touches edges of its face; and c an edge
\* neighbour of each of them in turn.
AreEdgeNeighbors(cells, c) ==
    /\ Len(cells) = 4
    /\ Cardinality({cells[k] : k \in 1..4}) = 4
    /\ \A k \in 1..4 :
        /\ WellFormedCellId(cells[k])
        /\ IsUInt64(cells[k])
        /\ LevelOf(cells[k]) = LevelOf(c)
        /\ CellOf(cells[k]).face = CellOf(c).face =>
            Abs(CellOf(cells[k]).i - CellOf(c).i)
                + Abs(CellOf(cells[k]).j - CellOf(c).j) = 1
        /\ LET back == cell_id_to_neighbor_cell_ids(cells[k], TRUE, FALSE,
                                                    S2_LOOKUP_POS, S2_LOOKUP_IJ).ret
           IN  back.kind = "return" /\ \E m \in 1..Len(back.val) : back.val[m] = c
    /\ 4 - CountOnFace(cells, CellOf(c).face) = EdgesTouched(c)

\* The k-th of the cells is on the face of c and one cell away along the
\* k-th of I+1, J-1, I-1, J+1, or that step leaves the face and the cell is
\* on another face.
InEdgeOrder(cells, c) ==
    LET steps == <<<<1, 0>>, <<0, -1>>, <<-1, 0>>, <<0, 1>>>>
        last == Pow2(LevelOf(c)) - 1
    IN  \A k \in 1..4 :
            LET i == CellOf(c).i + steps[k][1]
                j == CellOf(c).j + steps[k][2]
            IN  IF i \in 0..last /\ j \in 0..last
                THEN CellOf(cells[k]) = [face |-> CellOf(c).face, i |-> i, j |-> j]
                ELSE CellOf(cells[k]).face # CellOf(c).face

\* The level 5 cell 0x4aac000000000000 at a corner of the cube.
CubeCornerCell == CellIdOfDigits(<<4, 10, 10, 12>>)

\* At a corner of the cube, below level 0, a cell has three corner
\* neighbours.
ThreeCornerNeighbors ==
    (LastIsCornerNeighbors
        /\ LevelOf(Last(trace).arg.cell_id) >= 1
        /\ AtCubeCorner(Last(trace).arg.cell_id)) =>
        /\ Last(trace).ret.kind = "return"
        /\ Len(Last(trace).ret.val) = 3

Encodes(op, point, level, val) ==
    (LastIs(op) /\ Last(trace).arg = [point |-> point, level |-> IntLevel(level)]) =>
        Last(trace).ret = Return(val)

\* C19: lat 0, lon 0 (face 0, I = J = 2^29) encodes at level 0 to
\* 1152921504606846976 = 2^60, token 1, and at level 30 to 2^60 + 1, token
\* 1000000000000001; lat 90, lon -180 (face 2, I = J = 2^29) encodes at
\* level 30 to 5764607523034234881 = 2^62 + 2^60 + 1, token
\* 5000000000000001.
C19_SeedScenarios ==
    /\ Encodes("lat_lon_to_cell_id", CentreOfFace(0), 0, PyNat({60}))
    /\ Encodes("lat_lon_to_token", CentreOfFace(0), 0, <<"1">>)
    /\ Encodes("lat_lon_to_cell_id", CentreOfFace(0), S2_MAX_LEVEL, PyNat({60, 0}))
    /\ Encodes("lat_lon_to_token", CentreOfFace(0), S2_MAX_LEVEL,
               <<"1">> \o Zeros(14) \o <<"1">>)
    /\ Encodes("lat_lon_to_cell_id", CentreOfFace(2), S2_MAX_LEVEL, PyNat({62, 60, 0}))
    /\ Encodes("lat_lon_to_token", CentreOfFace(2), S2_MAX_LEVEL,
               <<"5">> \o Zeros(14) \o <<"1">>)

\* The middle of face 2 was encoded to a token at level 30.
C19_Witness ==
    /\ LastIs("lat_lon_to_token")
    /\ Last(trace).arg = [point |-> CentreOfFace(2), level |-> IntLevel(S2_MAX_LEVEL)]
    /\ Last(trace).ret.kind = "return"

(***************************************************************************)
(* C20: the shortened lookup loop                                          *)
(***************************************************************************)

\* What the lookup loop leaves when it runs down to last_k, before the
\* level mask: the face bits, the position bits looked up and the room for
\* the lowest bit.
LookedUp(point, last_k) ==
    Shl(EncodeLoop(7, last_k, point.i, point.j, NatAnd(point.face, S2_SWAP_MASK),
                   Shl(FromNat(point.face), S2_POS_BITS - 1), InitLookups.pos), 1)

\* The encoder that performs all 8 lookup steps and then applies the level
\* mask.
EncodeAllSteps(point, level) == TruncateToLevel(LookedUp(point, -1), level)

\* The last call encoded a point of a face at a level in 0..30.
LastIsEncodingOfPoint ==
    /\ LastIs("lat_lon_to_cell_id")
    /\ Last(trace).arg.point.face \in 0..5
    /\ IsLevel(Last(trace).arg.level)

\* C20: for every face, I, J in [0, 2^30) and level L in 0..30, the encoder
\* that performs ceil((L + 2) / 4) lookup steps, none for L = 0, and then
\* applies the level mask returns the cell ID that 8 lookup steps and the
\* level mask give.
C20_ShortLoopRefinesFullLoop ==
    LastIsEncodingOfPoint =>
        Last(trace).ret
            = Return(EncodeAllSteps(Last(trace).arg.point, Last(trace).arg.level.val))

\* A point was encoded at a level that leaves lookup steps out, and the
\* steps left out would have looked up position bits that are not zero.
C20_Witness ==
    /\ LastIsEncodingOfPoint
    /\ Last(trace).arg.level.val \in 1..(S2_MAX_LEVEL - 4)
    /\ Last(trace).ret.kind = "return"
    /\ LookedUp(Last(trace).arg.point, -1)
        # LookedUp(Last(trace).arg.point, 7 - ((Last(trace).arg.level.val + 5) \div 4))

(***************************************************************************)
(* C21                                                                     *)
(***************************************************************************)

\* A leaf cell was encoded from a point on a face and then handed to the
\* decoder.
LeafEncodedThenDecoded ==
    /\ LastTwoAre("lat_lon_to_cell_id", "cell_id_to_lat_lon")
    /\ Previous(trace).arg.point.face \in 0..5
    /\ Previous(trace).arg.level = IntLevel(S2_MAX_LEVEL)
    /\ Previous(trace).ret.kind = "return"

\* C21: the bit codec round-trips at leaf level: for every face in 0..5 and
\* every I, J in [0, 2^30), the decoding loop of cell_id_to_lat_lon, run on
\* the level-30 cell ID the encoding loop produced for (face, I, J), recovers
\* exactly the same face, I and J.
C21_LeafCodecRoundTrip ==
    LeafEncodedThenDecoded =>
        /\ Last(trace).arg = Previous(trace).ret.val
        /\ CellIdToFaceIJ(Last(trace).arg, S2_LOOKUP_IJ) = Previous(trace).arg.point
        /\ Last(trace).ret.kind = "return"
        /\ Last(trace).ret.val.face = Previous(trace).arg.point.face

\* A leaf cell of an odd face, with I and J different and neither zero, was
\* encoded and decoded.
C21_Witness ==
    /\ LeafEncodedThenDecoded
    /\ Previous(trace).arg.point.face % 2 = 1
    /\ Previous(trace).arg.point.i # Previous(trace).arg.point.j
    /\ Previous(trace).arg.point.i > 0
    /\ Previous(trace).arg.point.j > 0

(***************************************************************************)
(* C22                                                                     *)
(***************************************************************************)

\* The smallest leaf coordinate of the cell of the given level that holds
\* the leaf coordinate n.
SmallestLeafCoordinate(n, level) == n - (n % Pow2(S2_MAX_LEVEL - level))

\* Si or Ti of the centre of the cell of the given level that holds the leaf
\* coordinate n.
CentreOf(n, level) ==
    FromNat(2 * SmallestLeafCoordinate(n, level) + Pow2(S2_MAX_LEVEL - level))

\* The value is at most 2^31.
AtMostMaxSiTi(n) == n.s \subseteq 0..(S2_MAX_LEVEL + 1)
                    /\ ((S2_MAX_LEVEL + 1) \in n.s => n.s = {S2_MAX_LEVEL + 1})

LastIsDecodedCell ==
    LastIs("cell_id_to_lat_lon") /\ Last(trace).ret.kind = "return"

\* C22: for every valid cell ID at level L, the Si and Ti computed by
\* cell_id_to_lat_lon are exactly the centre of that cell: with I0, J0 the
\* smallest leaf coordinates inside the cell, Si = 2*I0 + 2^(30-L) and
\* Ti = 2*J0 + 2^(30-L), for leaf cells, for level 29 and for every
\* orientation of the final sub-cell, and Si, Ti never exceed 2^31.  The
\* cell is located by a leaf it holds: the one the lookup loop reaches and,
\* where the cell was encoded from a point, that point.
C22_CentreOfCell ==
    LastIsDecodedCell =>
        LET cell_id == Last(trace).arg
            level == LevelOf(cell_id)
            leaf == CellIdToFaceIJ(cell_id, S2_LOOKUP_IJ)
            centre == Last(trace).ret.val
        IN  /\ centre.si = CentreOf(leaf.i, level)
            /\ centre.ti = CentreOf(leaf.j, level)
            /\ AtMostMaxSiTi(centre.si) /\ AtMostMaxSiTi(centre.ti)
            /\ (Len(trace) = 2 /\ Previous(trace).op = "lat_lon_to_cell_id") =>
                   /\ centre.face = Previous(trace).arg.point.face
                   /\ centre.si = CentreOf(Previous(trace).arg.point.i, level)
                   /\ centre.ti = CentreOf(Previous(trace).arg.point.j, level)

\* A level-29 cell whose lookup loop ends on an even I and an even J, so that
\* the correction is applied by the inverted parity test, was decoded.
C22_Witness ==
    /\ LastIsDecodedCell
    /\ LevelOf(Last(trace).arg) = S2_MAX_LEVEL - 1
    /\ CellIdToFaceIJ(Last(trace).arg, S2_LOOKUP_IJ).i % 2 = 0
    /\ CellIdToFaceIJ(Last(trace).arg, S2_LOOKUP_IJ).j % 2 = 0
    /\ 1 \in Last(trace).ret.val.si.s

(***************************************************************************)
(* C23                                                                     *)
(***************************************************************************)

\* The recursive reference construction: a cell of the curve is split into
\* its four sub-cells, I and J kept apart, until four levels are reached,
\* where the entry of each table is given.  Every recursion step consumes one
\* 2-bit group of pos, the most significant first.
RECURSIVE InitLookupCell(_, _, _, _, _, _)
InitLookupCell(level, i, j, orig_orientation, pos, orientation) ==
    IF level = S2_LOOKUP_BITS
    THEN LET ij == i * Pow2(S2_LOOKUP_BITS) + j
         IN  {[pos_index |-> ij * 4 + orig_orientation,
               pos_value |-> pos * 4 + orientation,
               ij_index |-> pos * 4 + orig_orientation,
               ij_value |-> ij * 4 + orientation]}
    ELSE UNION {InitLookupCell(level + 1,
                    2 * i + (S2_POS_TO_IJ[orientation][sub_cell] \div 2),
                    2 * j + (S2_POS_TO_IJ[orientation][sub_cell] % 2),
                    orig_orientation, 4 * pos + sub_cell,
                    NatXor(orientation,
                           <<S2_SWAP_MASK, 0, 0, S2_SWAP_MASK + S2_INVERT_MASK>>[sub_cell + 1])) :
                sub_cell \in 0..3}

ReferenceEntries == UNION {InitLookupCell(0, 0, 0, o, 0, o) : o \in 0..3}

\* The tables _s2_init_lookups gives hold every entry of the reference
\* construction.
ReferenceGivesInitLookups ==
    \A entry \in ReferenceEntries :
        /\ InitLookups.pos[entry.pos_index] = entry.pos_value
        /\ InitLookups.ij[entry.ij_index] = entry.ij_value

\* C23: the iteratively built lookup tables equal the tables of the
\* recursive reference construction: for every base orientation o in 0..3
\* and every 8-bit pos, walking the four 2-bit groups of pos from most to
\* least significant with POS_TO_IJ and the XOR mask [SWAP, 0, 0,
\* SWAP|INVERT] gives ij and final orientation o2, and
\* pos_lookup[(ij << 2) | o] = (pos << 2) | o2 and
\* ij_lookup[(pos << 2) | o] = (ij << 2) | o2.  The tables in the globals
\* are the ones _s2_init_lookups gives, and these are the reference ones.
C23_TablesEqualReference ==
    S2_LOOKUP_POS # None =>
        /\ S2_LOOKUP_POS = InitLookups.pos
        /\ S2_LOOKUP_IJ = InitLookups.ij
        /\ ReferenceGivesInitLookups

\* _s2_init_lookups built the tables, and the reference construction gives
\* one entry for each base orientation and pos.
C23_Witness ==
    /\ Len(trace) = 1
    /\ LastIs("_s2_init_lookups")
    /\ S2_LOOKUP_POS # None
    /\ Cardinality(ReferenceEntries) = 4 * 256
    /\ \E entry \in ReferenceEntries :
          entry.pos_index % 4 = 3 /\ S2_LOOKUP_POS[entry.pos_index] % 4 = 1

(***************************************************************************)
(* C24                                                                     *)
(***************************************************************************)

\* The numerators of U and V of the point on the face.
TableNumerators(face, x, y, z) ==
    <<<<y, z>>, <<-x, z>>, <<-x, -y>>, <<z, y>>, <<z, -x>>, <<-y, -x>>>>[face + 1]

\* The divisor as the claim C24 has it.
TableDivisor(face, x, y, z) == <<x, y, z, -x, -y, -z>>[face + 1]

\* The component of the axis of the face.
FaceAxisComponent(face, x, y, z) == <<x, y, z>>[(face % 3) + 1]

\* The projection gave U and V as the numerators over the divisor.
ProjectsAs(projected, numerators, divisor) ==
    /\ divisor # 0
    /\ projected.u * divisor = numerators[1] * projected.divisor
    /\ projected.v * divisor = numerators[2] * projected.divisor

LastIsProjection == LastIs("face_xyz_to_uv") /\ Len(trace) = 1

\* C24 as claimed: for each face 0..5 and every point whose
\* largest-magnitude component selects that face, the UV projection inside
\* lat_lon_to_cell_id computes u and v as the numerators of the table
\* divided by the divisor of the table: face 0 (+y, +z)/(+x), face 1
\* (-x, +z)/(+y), face 2 (-x, -y)/(+z), face 3 (+z, +y)/(-x), face 4
\* (+z, -x)/(-y), face 5 (-y, -x)/(-z).
C24_ProjectionByTableDivisor ==
    LastIsProjection =>
        LET point == Last(trace).arg
            projected == Last(trace).ret.val
        IN  /\ projected.face \in 0..5
            /\ ProjectsAs(projected,
                    TableNumerators(projected.face, point[1], point[2], point[3]),
                    TableDivisor(projected.face, point[1], point[2], point[3]))

\* C24, amended: for each face 0..5 and every point whose largest-magnitude
\* component selects that face, the projection computes u and v as the
\* numerators of the table divided by the component of the axis of the face
\* itself, negative on the faces 3..5: face 0 (+y, +z)/x, face 1 (-x, +z)/y,
\* face 2 (-x, -y)/z, face 3 (+z, +y)/x, face 4 (+z, -x)/y, face 5
\* (-y, -x)/z.
C24_ProjectionByAxisComponent ==
    LastIsProjection =>
        LET point == Last(trace).arg
            projected == Last(trace).ret.val
        IN  /\ projected.face \in 0..5
            /\ ProjectsAs(projected,
                    TableNumerators(projected.face, point[1], point[2], point[3]),
                    FaceAxisComponent(projected.face, point[1], point[2], point[3]))

\* A point of face 4 with X and Z both different from zero was projected.
C24_Witness ==
    /\ LastIsProjection
    /\ Last(trace).ret.val.face = 4
    /\ Last(trace).arg[1] # 0
    /\ Last(trace).arg[3] # 0

(***************************************************************************)
(* C25                                                                     *)
(***************************************************************************)

\* C25: face_uv_to_xyz is the inverse of the face selection and UV
\* projection used by the encoder: for every face in 0..5 and every (u, v)
\* with |u| < 1 and |v| < 1, the point returned by
\* _s2_face_uv_to_xyz(face, (u, v)) selects the same face and projects back
\* to the same (u, v); a face outside 0..5 fails with an invalid-face error.
C25_FaceUVToXYZInverse ==
    /\ LastIs("_s2_face_uv_to_xyz") =>
          IF Last(trace).arg.face \in 0..5
          THEN Last(trace).ret.kind = "return"
          ELSE Last(trace).ret = Raise("ValueError")
    /\ LastTwoAre("_s2_face_uv_to_xyz", "face_xyz_to_uv") =>
          /\ Last(trace).arg = Previous(trace).ret.val
          /\ Last(trace).ret.val.face = Previous(trace).arg.face
          /\ Last(trace).ret.val.divisor = S2_MAX_SIZE
          /\ Last(trace).ret.val.u = Previous(trace).arg.u
          /\ Last(trace).ret.val.v = Previous(trace).arg.v

\* A point of face 2 with U and V different and neither zero was built and
\* projected back.
C25_Witness ==
    /\ LastTwoAre("_s2_face_uv_to_xyz", "face_xyz_to_uv")
    /\ Previous(trace).arg.face = 2
    /\ Previous(trace).arg.u < 0
    /\ Previous(trace).arg.v > 0

(***************************************************************************)
(* C26                                                                     *)
(***************************************************************************)

\* C26: st_to_ij(s) returns clamp(floor(2^30 * s), 0, 2^30 - 1) for every s
\* in [0, 1], and this equals the reference conversion
\* round(2^30 * s - 0.5) clamped to the same range for every such s,
\* including every s for which 2^30 * s is an exact integer; the floor-based
\* and the round-based implementation agree on all of these inputs.
C26_FloorAndRoundAgree ==
    /\ LastIs("_s2_st_to_ij") =>
          Last(trace).ret =
              Return(IF Last(trace).arg.whole = S2_MAX_SIZE THEN S2_MAX_SIZE - 1
                     ELSE Last(trace).arg.whole)
    /\ LastTwoAre("_s2_st_to_ij", "__init__._s2_st_to_ij") =>
          Last(trace).ret = Previous(trace).ret

(***************************************************************************)
(* C27                                                                     *)
(***************************************************************************)

\* For each base orientation the 256 values of pos give 256 distinct ij.
DistinctIJPerOrientation ==
    \A base_orientation \in 0..3 :
        Cardinality({WalkBitPairs(pos, 0, 0, base_orientation).ij : pos \in 0..255}) = 256

\* Every entry of each table is written by exactly one iteration: the 1024
\* iterations write at 1024 different indices of the 1024 of each table.
EachEntryWrittenOnce ==
    /\ Cardinality(DOMAIN LookupWrites) = LookupLength
    /\ {LookupWrites[n].pos_index : n \in DOMAIN LookupWrites} = 0..(LookupLength - 1)
    /\ {LookupWrites[n].ij_index : n \in DOMAIN LookupWrites} = 0..(LookupLength - 1)

\* With the two orientation bits apart, the one table undoes the other.
MutuallyInverse(pos_lookup, ij_lookup) ==
    \A x \in 0..(LookupLength - 1) :
        /\ pos_lookup[x] \in 0..(LookupLength - 1)
        /\ ij_lookup[(pos_lookup[x] - (pos_lookup[x] % 4)) + (x % 4)]
              = (x - (x % 4)) + (pos_lookup[x] % 4)

InitLookupsMutuallyInverse == MutuallyInverse(InitLookups.pos, InitLookups.ij)

\* C27: the two lookup tables are mutually inverse bijections: for each base
\* orientation o the 256 values of pos map to 256 distinct ij values, so
\* each of the 1024 entries of each table is written exactly once during
\* initialisation, and for every 10-bit key x,
\* ij_lookup[(pos_lookup[x] & ~3) | (x & 3)] = (x & ~3) | (pos_lookup[x] & 3).
\* The tables in the globals are the ones _s2_init_lookups gives.
C27_TablesMutuallyInverse ==
    S2_LOOKUP_IJ # None =>
        /\ DistinctIJPerOrientation
        /\ EachEntryWrittenOnce
        /\ S2_LOOKUP_IJ = InitLookups.ij
        /\ S2_LOOKUP_POS = InitLookups.pos
        /\ InitLookupsMutuallyInverse

\* A conversion built the tables, and an entry of a swapped and inverted
\* curve leads to another orientation.
C27_Witness ==
    /\ Len(trace) = 1
    /\ S2_LOOKUP_IJ # None
    /\ LastIs("cell_id_to_lat_lon")
    /\ \E x \in {LookupLength - 1, LookupLength - 5} :
          S2_LOOKUP_POS[x] % 4 # 3 /\ S2_LOOKUP_POS[x] \div 4 # x \div 4

(***************************************************************************)
(* C28                                                                     *)
(***************************************************************************)

\* The cell ID handed to the last call, an operation on a cell ID.
LastCellId ==
    IF LastIs("cell_id_to_parent_cell_id") THEN Last(trace).arg.cell_id
    ELSE Last(trace).arg

\* C28: cell_id_is_valid accepts only unsigned 64-bit values: for every
\* integer argument a True result implies 1 <= id <= 2^64 - 1; every
\* negative integer and every integer of 2^64 and above is reported invalid,
\* so no such value is accepted by cell_id_to_level,
\* cell_id_to_parent_cell_id or cell_id_to_lat_lon.
C28_ValidOnlyUInt64 ==
    /\ (LastIs("cell_id_is_valid") /\ Last(trace).ret.val = TRUE)
          => IsUInt64(Last(trace).arg) /\ Last(trace).arg # PyZero
    /\ ((LastIs("cell_id_to_level") \/ LastIs("cell_id_to_parent_cell_id")
            \/ LastIs("cell_id_to_lat_lon")) /\ ~IsUInt64(LastCellId))
          => Last(trace).ret = Raise("InvalidCellID")

(***************************************************************************)
(* C29                                                                     *)
(***************************************************************************)

\* The canonical form of a canonical token is that token.
CanonicalIdempotent ==
    LastTwoAre("token_to_canonical_token", "token_to_canonical_token")
        => Last(trace).ret = Previous(trace).ret

\* The token of a cell ID is canonical.
CanonicalOfCellIdToken ==
    LastTwoAre("cell_id_to_token", "token_to_canonical_token")
        => Last(trace).ret = Previous(trace).ret

\* The canonical form of a valid token is a token of the same cell ID.
CanonicalSameCellId ==
    (/\ LastTwoAre("token_to_canonical_token", "token_to_cell_id")
     /\ token_is_valid(Previous(trace).arg) = Return(TRUE))
        => Last(trace).ret = token_to_cell_id(Previous(trace).arg)

\* C29: token_to_canonical_token is idempotent and meaning-preserving: for
\* every string t the canonical form of the canonical form of t is the
\* canonical form of t; for every cell ID c the canonical form of
\* cell_id_to_token(c) is cell_id_to_token(c); and for every t accepted by
\* token_is_valid, token_to_cell_id of the canonical form of t is
\* token_to_cell_id(t).
C29_CanonicalIdempotent ==
    CanonicalIdempotent /\ CanonicalOfCellIdToken /\ CanonicalSameCellId

(***************************************************************************)
(* C30                                                                     *)
(***************************************************************************)

\* The indices at which the decoding loop reads the IJ table.
RECURSIVE DecodeIndices(_, _, _, _)
DecodeIndices(k, cell_id, bits, lookup_ij) ==
    IF k < 0 THEN {}
    ELSE LET n_bits == IF k = 7 THEN S2_MAX_LEVEL - 7 * S2_LOOKUP_BITS ELSE S2_LOOKUP_BITS
             index == bits + ToNat(BitAnd(Shr(cell_id, k * 2 * S2_LOOKUP_BITS + 1),
                                          FromNat(Pow2(2 * n_bits) - 1))) * 4
         IN  {index} \cup
             (IF index \in DOMAIN lookup_ij
              THEN DecodeIndices(k - 1, cell_id, lookup_ij[index] % 4, lookup_ij)
              ELSE {})

\* The face the decoder hands to _s2_face_uv_to_xyz.
DecodedFace(cell_id) == ToInt(Shr(cell_id, S2_POS_BITS))

\* C30: the invalid-face error of _s2_face_uv_to_xyz is unreachable through
\* the public decoders: cell_id_to_lat_lon and token_to_lat_lon reject every
\* id whose top three bits exceed 5 with InvalidCellID / InvalidToken before
\* any decoding, so _s2_face_uv_to_xyz is only ever called with a face in
\* 0..5 and every lookup index used by the decoding loop is within 0..1023.
C30_InvalidFaceUnreachable ==
    /\ LastIs("cell_id_to_lat_lon") =>
          IF cell_id_is_valid(Last(trace).arg)
          THEN /\ DecodedFace(Last(trace).arg) \in 0..5
               /\ Last(trace).ret.kind = "return"
               /\ DecodeIndices(7, Last(trace).arg, FaceOrientation(Last(trace).arg),
                                S2_LOOKUP_IJ) \subseteq 0..(LookupLength - 1)
          ELSE /\ Last(trace).ret = Raise("InvalidCellID")
               /\ Len(trace) = 1 => S2_LOOKUP_IJ = None
    /\ LastIs("token_to_lat_lon") =>
          IF Last(trace).ret.kind = "return"
          THEN Last(trace).ret.val.face \in 0..5
          ELSE Len(trace) = 1 => S2_LOOKUP_IJ = None

====
